---- MODULE Spec2Model ----
(***************************************************************************)
(* A model of the church-admin REST backend: the Express routers with      *)
(* their middleware chains (authenticate, authorize, optionalAuth), the    *)
(* central errorHandler, the Prisma tables the controllers read and write, *)
(* and the controllers' handlers.  A request is a record that walks the    *)
(* router's layer stack in registration order; every await of a handler    *)
(* that separates a read from a later write is a step of its own, so that  *)
(* concurrent requests interleave the way the Node event loop lets them.   *)
(***************************************************************************)
EXTENDS Integers, Sequences, FiniteSets, TLC

(***************************************************************************)
(* Bounds of the model.                                                    *)
(***************************************************************************)
MaxId == 2
MaxUsers == 2
MaxReqs == 2

Ids == 1..MaxId
UserIds == 1..MaxUsers
ReqIds == 1..MaxReqs

(***************************************************************************)
(* Values.  NULL is the database NULL / JavaScript null; a field that is   *)
(* undefined in a request body is a field outside the body's DOMAIN.       *)
(***************************************************************************)
NULL == "NULL"
NoRow == [exists |-> FALSE]

Min(a, b) == IF a < b THEN a ELSE b
Max(a, b) == IF a > b THEN a ELSE b

Has(body, f) == f \in DOMAIN body
Get(body, f, dflt) == IF f \in DOMAIN body THEN body[f] ELSE dflt

(***************************************************************************)
(* JavaScript values, where a handler's outcome turns on their type: a     *)
(* query parameter is a string when the client gives it and the            *)
(* destructuring default (a number, a boolean) when it does not.           *)
(***************************************************************************)
Undefined == [t |-> "undefined"]
Str(s) == [t |-> "string", s |-> s]
Bool(b) == [t |-> "boolean", b |-> b]
Num(n) == [t |-> "number", n |-> n]
NaN == [t |-> "NaN"]
Infinity == [t |-> "Infinity"]

\* The decimal integer literals among the strings a client sends, with the
\* value each denotes.
IntLiterals == ("0" :> 0) @@ ("1" :> 1) @@ ("2" :> 2) @@ ("3" :> 3) @@ ("101" :> 101)

\* parseInt(v): the string's integer, NaN for a string that starts with no
\* digit; a number is converted to its string first.
parseInt(v) ==
  IF v.t = "string" THEN (IF v.s \in DOMAIN IntLiterals THEN Num(IntLiterals[v.s]) ELSE NaN)
  ELSE IF v.t = "number" THEN v
  ELSE NaN

\* Number(v)
Number(v) ==
  IF v.t = "string" THEN (IF v.s \in DOMAIN IntLiterals THEN Num(IntLiterals[v.s]) ELSE NaN)
  ELSE IF v.t = "number" THEN v
  ELSE IF v.t = "boolean" THEN Num(IF v.b THEN 1 ELSE 0)
  ELSE NaN

\* a - b, a * b, a < b and Math.ceil(total / b) on numbers; NaN is
\* contagious and compares false.
Minus(a, b) == IF a.t = "number" /\ b.t = "number" THEN Num(a.n - b.n) ELSE NaN
Times(a, b) == IF a.t = "number" /\ b.t = "number" THEN Num(a.n * b.n) ELSE NaN
Less(a, b) ==
  IF a.t = "number" /\ b.t = "number" THEN a.n < b.n
  ELSE a.t = "number" /\ b.t = "Infinity"
MathCeil(total, b) ==
  IF b.t # "number" THEN NaN
  ELSE IF b.n = 0 THEN (IF total = 0 THEN NaN ELSE Infinity)
  ELSE IF b.n > 0 THEN Num((total + b.n - 1) \div b.n)
  ELSE Num(-(total \div (-b.n)))

\* A query parameter as the handler destructures it: const {k = dflt} = req.query.
QueryOr(query, k, dflt) == IF k \in DOMAIN query THEN Str(query[k]) ELSE dflt

(***************************************************************************)
(* Errors and the central error handler.  An error object is the record of *)
(* the properties errorHandler reads: name, statusCode (0 when the object  *)
(* has none) and code.                                                     *)
(***************************************************************************)
CustomError(status) == [name |-> "Error", statusCode |-> status, code |-> ""]
ApiError(status) == [name |-> "Error", statusCode |-> status, code |-> ""]
ValidationError == CustomError(400)
UnauthorizedError == CustomError(401)
ForbiddenError == CustomError(403)
NotFoundError == CustomError(404)
ConflictError == CustomError(409)
PrismaKnownError(c) == [name |-> "PrismaClientKnownRequestError", statusCode |-> 0, code |-> c]
PrismaValidationError == [name |-> "PrismaClientValidationError", statusCode |-> 0, code |-> ""]
JsonWebTokenError == [name |-> "JsonWebTokenError", statusCode |-> 0, code |-> ""]
TokenExpiredError == [name |-> "TokenExpiredError", statusCode |-> 0, code |-> ""]
PlainError == [name |-> "Error", statusCode |-> 0, code |-> ""]

\* errorHandler without its rewrites by name and code: the status is the
\* error's own statusCode or 500.
errorHandler_StatusOnly(err) == IF err.statusCode = 0 THEN 500 ELSE err.statusCode

\* errorHandler: the later rewrites win, and a missing statusCode is 500.
errorHandler(err) ==
  LET e0 == err
      e1 == IF err.name = "CastError" THEN NotFoundError ELSE e0
      e2 == IF err.code = "11000" THEN ConflictError ELSE e1
      e3 == IF err.name = "ValidationError" THEN ValidationError ELSE e2
      e4 == IF err.name = "JsonWebTokenError" THEN UnauthorizedError ELSE e3
      e5 == IF err.name = "TokenExpiredError" THEN UnauthorizedError ELSE e4
      e6 == IF err.name = "PrismaClientKnownRequestError"
            THEN (CASE err.code = "P2002" -> ConflictError
                    [] err.code = "P2025" -> NotFoundError
                    [] OTHER -> CustomError(500))
            ELSE e5
  IN  IF e6.statusCode = 0 THEN 500 ELSE e6.statusCode

\* The body errorHandler sends with that status: {success: false, message}.
errorBody(err) == [status |-> errorHandler(err), success |-> FALSE]
NoErrorBody == [status |-> 0, success |-> TRUE]
\* Errors of the libraries that errorHandler names: Mongoose's CastError,
\* duplicate key (code 11000) and ValidationError.
CastError == [name |-> "CastError", statusCode |-> 0, code |-> ""]
DuplicateKeyError == [name |-> "MongoServerError", statusCode |-> 0, code |-> "11000"]
MongooseValidationError == [name |-> "ValidationError", statusCode |-> 0, code |-> ""]

(***************************************************************************)
(* Paths.  A path is the sequence of its segments below the router's mount *)
(* point; a segment is a literal or a row id.  A pattern segment is a      *)
(* literal or a parameter, and a parameter matches any segment.            *)
(***************************************************************************)
Lit(s) == [s |-> s, n |-> 0]
IdSeg(i) == [s |-> "#", n |-> i]
Param == [s |-> ":", n |-> 0]

MatchPath(pat, path) ==
  /\ Len(pat) = Len(path)
  /\ \A i \in 1..Len(pat) : pat[i] = Param \/ pat[i] = path[i]

\* The row id a parameter segment names; a literal in a parameter's place
\* names no row and is no UUID.
ParamId(seg) == IF seg.s = "#" THEN seg.n ELSE 0
IsUUID(seg) == seg.s = "#"

(***************************************************************************)
(* Routers: the layers in registration order.                              *)
(***************************************************************************)
Use(mw, roles) ==
  [kind |-> "use", mw |-> mw, roles |-> roles, method |-> "", pat |-> <<>>,
   pre |-> <<>>, handler |-> ""]
Route(method, pat, pre, handler) ==
  [kind |-> "route", mw |-> "", roles |-> {}, method |-> method, pat |-> pat,
   pre |-> pre, handler |-> handler]

memberRoutes ==
  << Route("GET", <<Lit("stats")>>, <<>>, "getMemberStats"),
     Route("GET", <<>>, <<>>, "getMembers"),
     Route("GET", <<Param>>, <<>>, "getMemberById"),
     Route("POST", <<>>, <<>>, "createMember"),
     Route("PUT", <<Param>>, <<>>, "updateMember"),
     Route("DELETE", <<Param>>, <<>>, "deleteMember") >>

ministryRoutes ==
  << Route("GET", <<Lit("stats")>>, <<>>, "getMinistryStats"),
     Use("authenticate", {}),
     Route("GET", <<>>, <<>>, "getMinistries"),
     Route("GET", <<Param>>, <<>>, "getMinistryById"),
     Route("GET", <<Param, Lit("members")>>, <<>>, "getMinistryMembers"),
     Use("authorize", {"ADMIN", "SUPER_ADMIN", "MINISTRY_LEADER"}),
     Route("POST", <<>>, <<>>, "createMinistry"),
     Route("PUT", <<Param>>, <<>>, "updateMinistry"),
     Route("POST", <<Param, Lit("members")>>, <<>>, "addMember"),
     Route("DELETE", <<Param, Lit("members"), Param>>, <<>>, "removeMember"),
     Route("PUT", <<Param, Lit("members"), Param>>, <<>>, "updateMemberRole"),
     Use("authorize", {"SUPER_ADMIN"}),
     Route("DELETE", <<Param>>, <<>>, "deleteMinistry") >>

eventRoutes ==
  << Route("GET", <<Lit("stats")>>, <<>>, "getEventStats"),
     Use("authenticate", {}),
     Route("GET", <<>>, <<>>, "getEvents"),
     Route("GET", <<Param>>, <<>>, "getEventById"),
     Use("authorize", {"ADMIN", "SUPER_ADMIN", "EVENT_ORGANIZER", "MINISTRY_LEADER"}),
     Route("POST", <<>>, <<>>, "createEvent"),
     Route("PUT", <<Param>>, <<>>, "updateEvent"),
     Route("POST", <<Param, Lit("register")>>, <<>>, "registerForEvent"),
     Route("DELETE", <<Param, Lit("register"), Param>>, <<>>, "cancelRegistration"),
     Route("POST", <<Param, Lit("attendance")>>, <<>>, "recordAttendance"),
     Use("authorize", {"SUPER_ADMIN"}),
     Route("DELETE", <<Param>>, <<>>, "deleteEvent") >>

contributionRoutes ==
  << Route("GET", <<Lit("stats")>>, <<>>, "getContributionStats"),
     Use("authenticate", {}),
     Route("GET", <<>>, <<>>, "getContributions"),
     Route("GET", <<Param>>, <<>>, "getContributionById"),
     Route("GET", <<Lit("member"), Param>>, <<>>, "getMemberContributions"),
     Use("authorize", {"ADMIN", "SUPER_ADMIN", "FINANCE", "TREASURER"}),
     Route("POST", <<>>, <<>>, "createContribution"),
     Route("PUT", <<Param>>, <<>>, "updateContribution"),
     Route("GET", <<Lit("export")>>, <<>>, "exportContributions"),
     Use("authorize", {"SUPER_ADMIN", "TREASURER"}),
     Route("DELETE", <<Param>>, <<>>, "deleteContribution") >>

announcementRoutes ==
  << Route("GET", <<Lit("recent")>>, <<"optionalAuth">>, "getRecentAnnouncements"),
     Route("GET", <<Lit("search")>>, <<"optionalAuth">>, "searchAnnouncements"),
     Route("GET", <<Lit("priority"), Param>>, <<"optionalAuth">>, "getAnnouncementsByPriority"),
     Route("GET", <<Lit("stats")>>, <<>>, "getAnnouncementStats"),
     Route("GET", <<Lit("public")>>, <<>>, "getAnnouncements"),
     Route("GET", <<Lit("public"), Param>>, <<>>, "getAnnouncementById"),
     Use("authenticate", {}),
     Route("GET", <<>>, <<>>, "getAnnouncements"),
     Route("GET", <<Param>>, <<>>, "getAnnouncementById"),
     Use("authorize", {"ADMIN", "SUPER_ADMIN", "CONTENT_CREATOR", "COMMUNICATIONS"}),
     Route("POST", <<>>, <<>>, "createAnnouncement"),
     Route("PUT", <<Param>>, <<>>, "updateAnnouncement"),
     Route("POST", <<Param, Lit("publish")>>, <<>>, "publishAnnouncement"),
     Route("POST", <<Param, Lit("unpublish")>>, <<>>, "unpublishAnnouncement"),
     Use("authorize", {"SUPER_ADMIN"}),
     Route("DELETE", <<Param>>, <<>>, "deleteAnnouncement") >>

authRoutes ==
  << Route("POST", <<Lit("register")>>, <<>>, "register"),
     Route("POST", <<Lit("login")>>, <<>>, "login"),
     Route("POST", <<Lit("forgot-password")>>, <<>>, "forgotPassword"),
     Route("POST", <<Lit("reset-password")>>, <<>>, "resetPassword"),
     Use("authenticate", {}),
     Route("POST", <<Lit("logout")>>, <<>>, "logout"),
     Route("GET", <<Lit("profile")>>, <<>>, "getProfile"),
     Route("PUT", <<Lit("profile")>>, <<>>, "updateProfile"),
     Route("POST", <<Lit("change-password")>>, <<>>, "changePassword"),
     Route("POST", <<Lit("refresh-token")>>, <<>>, "refreshToken"),
     Route("GET", <<Lit("me")>>, <<"optionalAuth">>, "getCurrentUser") >>

RouterNames == {"auth", "members", "ministries", "events", "contributions", "announcements"}

\* routes/index.ts: the mount points.
routes(name) ==
  CASE name = "auth" -> authRoutes
    [] name = "members" -> memberRoutes
    [] name = "ministries" -> ministryRoutes
    [] name = "events" -> eventRoutes
    [] name = "contributions" -> contributionRoutes
    [] name = "announcements" -> announcementRoutes

\* Express hands the request to a layer when it is a router.use layer or a
\* route whose method and path pattern match.
LayerApplies(layer, method, path) ==
  \/ layer.kind = "use"
  \/ layer.kind = "route" /\ layer.method = method /\ MatchPath(layer.pat, path)

\* The first layer at or after position i that the request is handed to;
\* Len(stack) + 1 when it falls off the router.
RECURSIVE NextLayer(_, _, _, _)
NextLayer(stack, i, method, path) ==
  IF i > Len(stack) THEN Len(stack) + 1
  ELSE IF LayerApplies(stack[i], method, path) THEN i
  ELSE NextLayer(stack, i + 1, method, path)

(***************************************************************************)
(* The database: one function per Prisma model, from the row id to the row *)
(* (NoRow when there is none).  The join tables are keyed by the pair that *)
(* their compound unique index names (ministryId_memberId,                 *)
(* eventId_memberId).                                                      *)
(***************************************************************************)
VARIABLES db, reqs, fkMode
vars == <<db, reqs, fkMode>>

Exists(tbl, i) == i \in DOMAIN tbl /\ tbl[i].exists

\* A fresh row id (Prisma draws a UUID); 0 when the bounded id space is full.
FreeId(tbl) ==
  IF \E i \in DOMAIN tbl : ~tbl[i].exists
  THEN CHOOSE i \in DOMAIN tbl : ~tbl[i].exists /\ \A j \in DOMAIN tbl : ~tbl[j].exists => i <= j
  ELSE 0

\* prisma.<model>.create: the row lands under a fresh id; a full id space
\* leaves the table as it is (the pipeline never takes that step).
Insert(tbl, row) ==
  IF FreeId(tbl) = 0 THEN tbl ELSE [tbl EXCEPT ![FreeId(tbl)] = row]

EmptyTable(S) == [i \in S |-> NoRow]

EmptyDB ==
  [users |-> EmptyTable(UserIds),
   members |-> EmptyTable(Ids),
   ministries |-> EmptyTable(Ids),
   ministryMember |-> EmptyTable(Ids \X Ids),
   events |-> EmptyTable(Ids),
   registrations |-> EmptyTable(Ids \X Ids),
   attendances |-> EmptyTable(Ids \X Ids),
   contributions |-> EmptyTable(Ids),
   announcements |-> EmptyTable(Ids)]

UserRow(email, active, roleSeq) ==
  [exists |-> TRUE, email |-> email, isActive |-> active, role |-> "member",
   roles |-> roleSeq, lastLogin |-> NULL]
MemberRow(name, email, active) ==
  [exists |-> TRUE, name |-> name, email |-> email, isActive |-> active]

\* A database without the unique index.
UniqueEmailTaken_NoIndex(tbl, email, selfId) == FALSE

\* The column-level unique index on email (Member.email, User.email): a write
\* that would leave two rows with the same non-null email fails with P2002.
UniqueEmailTaken(tbl, email, selfId) ==
  /\ email # NULL
  /\ \E j \in DOMAIN tbl : j # selfId /\ tbl[j].exists /\ tbl[j].email = email

\* The result of a handler (or of one of its steps): the database it leaves
\* and the status of the response; an error travels through errorHandler.
Ok(d, status) == [db |-> d, status |-> status]
Fail(d, err) == [db |-> d, status |-> errorHandler(err)]

(***************************************************************************)
(* Requests.                                                               *)
(***************************************************************************)
NoUser == [id |-> 0, role |-> ""]
NoAuth == [scheme |-> "none", sig |-> "", claim |-> "", uid |-> 0]
BasicAuth == [scheme |-> "Basic", sig |-> "", claim |-> "", uid |-> 0]
\* A bearer token: whether its signature verifies, the payload key that holds
\* the user id ("id" as generateToken signs it, "userId" as refreshToken
\* does) and the id.
Bearer(sig, claim, uid) == [scheme |-> "Bearer", sig |-> sig, claim |-> claim, uid |-> uid]

NoBody == [f \in {} |-> NULL]
\* The statistics of a member-statistics response.
NoStats == [total |-> 0, active |-> 0, inactive |-> 0]
\* The body of a list response (res.json), with whether the handler got as
\* far as its database queries and what the route's validation chain found.
NoPagination ==
  [page |-> NaN, limit |-> NaN, total |-> 0, totalPages |-> NaN,
   hasNext |-> FALSE, hasPrev |-> FALSE]
NoJson == [status |-> 0, queried |-> FALSE, data |-> <<>>, pagination |-> NoPagination]
IdleReq ==
  [pc |-> "idle", router |-> "", method |-> "", path |-> <<>>, auth |-> NoAuth,
   body |-> NoBody, query |-> NoBody, layer |-> 0, pre |-> 0, user |-> NoUser,
   status |-> 0, handler |-> "", loc |-> NoRow, trail |-> <<>>, sawInactive |-> FALSE,
   snap |-> NoRow, json |-> NoJson, errors |-> FALSE,
   thrown |-> [kind |-> "", err |-> PlainError], sent |-> NoErrorBody,
   read |-> NoBody, stats |-> NoStats, ageStats |-> <<>>, cstats |-> NoRow,
   data |-> [id |-> 0, row |-> NoRow],
   flow |-> [sends |-> 0, forwardedAfterSend |-> FALSE, wroteAfterSend |-> FALSE],
   token |-> NoAuth]

Stack(rq) == routes(rq.router)
AtLayer(rq) == Stack(rq)[rq.layer]
OnLayer(rq) == rq.pc = "walk" /\ rq.layer <= Len(Stack(rq))

\* next(): on to the following layer the request is handed to.
Advance(rq) ==
  [rq EXCEPT !.layer = NextLayer(Stack(rq), rq.layer + 1, rq.method, rq.path),
             !.pre = 0]
\* next(err) or a response: the request is answered.
Respond(rq, status) == [rq EXCEPT !.pc = "done", !.status = status]

StartReq(router, method, path, auth, body, query, d) ==
  [IdleReq EXCEPT !.pc = "walk", !.router = router, !.method = method,
                  !.path = path, !.auth = auth, !.body = body, !.query = query,
                  !.layer = NextLayer(routes(router), 1, method, path),
                  !.sawInactive = (auth.scheme = "Bearer" /\ auth.uid \in DOMAIN d.users
                                   /\ d.users[auth.uid].exists /\ ~d.users[auth.uid].isActive),
                  !.snap = d]

(***************************************************************************)
(* middleware/auth.ts                                                      *)
(***************************************************************************)
JWT_SECRET_SET == TRUE

\* jwt.verify: the decoded id, or the error it throws.  A token signed by
\* refreshToken carries userId, so its decoded.id is undefined (0 here).
jwtVerify(auth) ==
  IF auth.sig = "ok"
  THEN [ok |-> TRUE, id |-> IF auth.claim = "id" THEN auth.uid ELSE 0, err |-> PlainError]
  ELSE [ok |-> FALSE, id |-> 0,
        err |-> IF auth.sig = "expired" THEN TokenExpiredError ELSE JsonWebTokenError]

primaryRole(user) == IF Len(user.roles) > 0 THEN user.roles[1] ELSE "MEMBER"

\* authenticate up to its await of prisma.user.update: the user it found, or
\* the error it forwards.  TokenExpiredError is a JsonWebTokenError, so both
\* leave as UnauthorizedError('Invalid token').
UserActiveOk(user) == user.exists /\ user.isActive

authenticateLookup(d, auth) ==
  IF auth.scheme # "Bearer" THEN [ok |-> FALSE, err |-> UnauthorizedError, id |-> 0]
  ELSE IF ~JWT_SECRET_SET THEN [ok |-> FALSE, err |-> PlainError, id |-> 0]
  ELSE LET v == jwtVerify(auth) IN
    IF ~v.ok THEN [ok |-> FALSE, err |-> UnauthorizedError, id |-> 0]
    ELSE IF v.id = 0 THEN [ok |-> FALSE, err |-> PrismaValidationError, id |-> 0]
    ELSE IF ~(v.id \in DOMAIN d.users /\ UserActiveOk(d.users[v.id]))
         THEN [ok |-> FALSE, err |-> UnauthorizedError, id |-> 0]
    ELSE [ok |-> TRUE, err |-> PlainError, id |-> v.id]

\* authorize with the allow-list ignored.
AllowedRole_AnyRole(allowed, role) == TRUE

\* authorize(allowedRoles)
AllowedRole(allowed, role) == role \in allowed

authorizeCheck(allowed, user) ==
  IF user = NoUser THEN [ok |-> FALSE, err |-> UnauthorizedError]
  ELSE IF ~AllowedRole(allowed, user.role) THEN [ok |-> FALSE, err |-> ForbiddenError]
  ELSE [ok |-> TRUE, err |-> PlainError]

\* optionalAuth: sets req.user when the token names an active user; every
\* failure is swallowed.
optionalAuthUser(d, auth) ==
  IF auth.scheme # "Bearer" \/ ~JWT_SECRET_SET THEN NoUser
  ELSE LET v == jwtVerify(auth) IN
    IF ~v.ok \/ v.id = 0 THEN NoUser
    ELSE IF v.id \in DOMAIN d.users /\ d.users[v.id].exists /\ d.users[v.id].isActive
         THEN [id |-> v.id, role |-> primaryRole(d.users[v.id])]
    ELSE NoUser

(***************************************************************************)
(* express-validator.  The chains of a route only record their findings;   *)
(* a handler rejects the request only where it asks validationResult(req). *)
(***************************************************************************)
Emails == {"e1", "e2"}
isEmail(v) == v \in Emails
notEmpty(v) == v # "" /\ v # NULL
\* if (email): undefined, null and '' are falsy.
Truthy(body, f) == Has(body, f) /\ body[f] # "" /\ body[f] # NULL

P1(rq) == IF Len(rq.path) >= 1 THEN ParamId(rq.path[1]) ELSE 0
P2(rq) == IF Len(rq.path) >= 2 THEN ParamId(rq.path[2]) ELSE 0
P3(rq) == IF Len(rq.path) >= 3 THEN ParamId(rq.path[3]) ELSE 0
idValidationFails(rq) == ~(Len(rq.path) >= 1 /\ IsUUID(rq.path[1]))

createMemberValidationFails(rq) ==
  \/ ~Has(rq.body, "name") \/ ~notEmpty(rq.body["name"])
  \/ Has(rq.body, "email") /\ ~isEmail(rq.body["email"])

updateMemberValidationFails(rq) ==
  \/ idValidationFails(rq)
  \/ Has(rq.body, "name") /\ ~notEmpty(rq.body["name"])
  \/ Has(rq.body, "email") /\ ~isEmail(rq.body["email"])

\* A merge that also reactivates the row.
Merge_Reactivates(row, body, fields) ==
  [f \in DOMAIN row |->
     IF f = "isActive" THEN TRUE
     ELSE IF f \in fields /\ f \in DOMAIN body THEN body[f] ELSE row[f]]

\* updateData: the fields of the body that are not undefined, nothing else.
Merge(row, body, fields) ==
  [f \in DOMAIN row |-> IF f \in fields /\ f \in DOMAIN body THEN body[f] ELSE row[f]]

(***************************************************************************)
(* Foreign keys.  The Prisma schema's onDelete rules are not part of the   *)
(* sources, so a delete of a row that join rows still reference has the    *)
(* outcome fkMode fixes for the run: "restrict" (P2003, nothing deleted)   *)
(* or "cascade" (the referencing join rows and contributions go with it,   *)
(* a leader, organizer or author reference is set to null).                *)
(***************************************************************************)
MemberRefs(d, m) ==
  \/ \E k \in Ids : d.ministryMember[<<k, m>>].exists
  \/ \E e \in Ids : d.registrations[<<e, m>>].exists \/ d.attendances[<<e, m>>].exists
  \/ \E c \in Ids : d.contributions[c].exists /\ d.contributions[c].memberId = m
  \/ \E k \in Ids : d.ministries[k].exists /\ d.ministries[k].leaderId = m
  \/ \E e \in Ids : d.events[e].exists /\ d.events[e].organizerId = m
  \/ \E a \in Ids : d.announcements[a].exists /\ d.announcements[a].authorId = m

CascadeMember(d, m) ==
  [d EXCEPT
     !.members[m] = NoRow,
     !.ministryMember = [k \in DOMAIN @ |-> IF k[2] = m THEN NoRow ELSE @[k]],
     !.registrations = [k \in DOMAIN @ |-> IF k[2] = m THEN NoRow ELSE @[k]],
     !.attendances = [k \in DOMAIN @ |-> IF k[2] = m THEN NoRow ELSE @[k]],
     !.contributions = [c \in DOMAIN @ |->
        IF @[c].exists /\ @[c].memberId = m THEN NoRow ELSE @[c]],
     !.ministries = [k \in DOMAIN @ |->
        IF @[k].exists /\ @[k].leaderId = m THEN [@[k] EXCEPT !.leaderId = 0] ELSE @[k]],
     !.events = [e \in DOMAIN @ |->
        IF @[e].exists /\ @[e].organizerId = m THEN [@[e] EXCEPT !.organizerId = 0] ELSE @[e]],
     !.announcements = [a \in DOMAIN @ |->
        IF @[a].exists /\ @[a].authorId = m THEN [@[a] EXCEPT !.authorId = 0] ELSE @[a]]]

prismaMemberDelete(d, m, fk) ==
  IF ~Exists(d.members, m) THEN Fail(d, PrismaKnownError("P2025"))
  ELSE IF MemberRefs(d, m) /\ fk = "restrict" THEN Fail(d, PrismaKnownError("P2003"))
  ELSE Ok(CascadeMember(d, m), 200)

(***************************************************************************)
(* controllers/SimpleMemberController.ts                                   *)
(***************************************************************************)
\* createMember up to the await of prisma.member.create.
createMemberCheck(d, rq) ==
  IF createMemberValidationFails(rq) THEN Fail(d, ApiError(400))
  ELSE IF Truthy(rq.body, "email")
          /\ \E j \in Ids : d.members[j].exists /\ d.members[j].email = rq.body["email"]
       THEN Fail(d, ApiError(409))
  ELSE Ok(d, 0)

\* A create that stores no email.
createMemberWrite_NoEmail(d, rq) ==
  LET email == NULL IN
  IF UniqueEmailTaken(d.members, email, 0) THEN Fail(d, PrismaKnownError("P2002"))
  ELSE Ok([d EXCEPT !.members = Insert(@, MemberRow(rq.body["name"], email, TRUE))], 201)

\* prisma.member.create and the 201 response.
createMemberWrite(d, rq) ==
  LET email == Get(rq.body, "email", NULL) IN
  IF UniqueEmailTaken(d.members, email, 0) THEN Fail(d, PrismaKnownError("P2002"))
  ELSE Ok([d EXCEPT !.members = Insert(@, MemberRow(rq.body["name"], email, TRUE))], 201)

\* updateMember up to the await of the email lookup: the row it found.
updateMemberFind(d, rq) ==
  IF updateMemberValidationFails(rq) THEN Fail(d, ApiError(400))
  ELSE IF ~Exists(d.members, P1(rq)) THEN Fail(d, ApiError(404))
  ELSE Ok(d, 0)

\* if (email && email !== existingMember.email)
EmailChanges(body, existing) ==
  Truthy(body, "email") /\ body["email"] # existing.email

\* The findFirst for another member with the new email.
updateMemberEmailCheck(d, rq, existing) ==
  IF EmailChanges(rq.body, existing)
     /\ \E j \in Ids : j # P1(rq) /\ d.members[j].exists /\ d.members[j].email = rq.body["email"]
  THEN Fail(d, ApiError(409))
  ELSE Ok(d, 0)

MemberUpdateFields == {"name", "email", "isActive"}

\* prisma.member.update and the 200 response.
updateMemberWrite(d, rq) ==
  LET id == P1(rq) IN
  IF ~Exists(d.members, id) THEN Fail(d, PrismaKnownError("P2025"))
  ELSE LET new == Merge(d.members[id], rq.body, MemberUpdateFields) IN
       IF UniqueEmailTaken(d.members, new.email, id) THEN Fail(d, PrismaKnownError("P2002"))
       ELSE Ok([d EXCEPT !.members[id] = new], 200)

\* deleteMember's _count: contributions, and ministries where isActive.
MemberHasRelated(d, m) ==
  \/ \E c \in Ids : d.contributions[c].exists /\ d.contributions[c].memberId = m
  \/ \E k \in Ids : d.ministryMember[<<k, m>>].exists /\ d.ministryMember[<<k, m>>].isActive

deleteMemberFind(d, rq) ==
  IF ~Exists(d.members, P1(rq)) THEN Fail(d, ApiError(404)) ELSE Ok(d, 0)

deleteMemberWrite(d, rq, soft, fk) ==
  LET id == P1(rq) IN
  IF soft
  THEN IF ~Exists(d.members, id) THEN Fail(d, PrismaKnownError("P2025"))
       ELSE Ok([d EXCEPT !.members[id].isActive = FALSE], 200)
  ELSE prismaMemberDelete(d, id, fk)

\* The handlers run to completion, as they do when no other request
\* interleaves.
Then(r1, next) == IF r1.status # 0 THEN r1 ELSE next

createMember(d, rq) == Then(createMemberCheck(d, rq), createMemberWrite(d, rq))

updateMember(d, rq) ==
  Then(updateMemberFind(d, rq),
       Then(updateMemberEmailCheck(d, rq, d.members[P1(rq)]), updateMemberWrite(d, rq)))

deleteMember(d, rq, fk) ==
  Then(deleteMemberFind(d, rq), deleteMemberWrite(d, rq, MemberHasRelated(d, P1(rq)), fk))

getMemberById(d, rq) ==
  IF ~Exists(d.members, P1(rq)) THEN Fail(d, ApiError(404)) ELSE Ok(d, 200)

(***************************************************************************)
(* controllers/MinistryController.ts.  Modelled columns: name (unique),    *)
(* isActive, leaderId.                                                     *)
(***************************************************************************)
MinistryRow(name, leader, active) ==
  [exists |-> TRUE, name |-> name, isActive |-> active, leaderId |-> leader]
MembershipRow(role, active) == [exists |-> TRUE, role |-> role, isActive |-> active]
MinistryRoles == {"MEMBER", "LEADER", "ASSISTANT"}

createMinistryValidationFails(rq) ==
  \/ ~Has(rq.body, "name") \/ ~notEmpty(rq.body["name"])
  \/ ~Has(rq.body, "leaderId") \/ rq.body["leaderId"] = 0

updateMinistryValidationFails(rq) ==
  \/ idValidationFails(rq)
  \/ Has(rq.body, "name") /\ ~notEmpty(rq.body["name"])
  \/ Has(rq.body, "leaderId") /\ rq.body["leaderId"] = 0

MinistryNameTaken(d, name, selfId) ==
  \E j \in Ids : j # selfId /\ d.ministries[j].exists /\ d.ministries[j].name = name

createMinistry(d, rq) ==
  IF createMinistryValidationFails(rq) THEN Fail(d, ApiError(400))
  ELSE IF MinistryNameTaken(d, rq.body["name"], 0) THEN Fail(d, ApiError(409))
  ELSE IF ~Exists(d.members, rq.body["leaderId"]) THEN Fail(d, ApiError(404))
  ELSE Ok([d EXCEPT !.ministries = Insert(@,
             MinistryRow(rq.body["name"], rq.body["leaderId"], TRUE))], 201)

MinistryUpdateFields == {"name", "leaderId", "isActive"}

updateMinistry(d, rq) ==
  LET id == P1(rq) IN
  IF updateMinistryValidationFails(rq) THEN Fail(d, ApiError(400))
  ELSE IF ~Exists(d.ministries, id) THEN Fail(d, ApiError(404))
  ELSE IF Truthy(rq.body, "name") /\ rq.body["name"] # d.ministries[id].name
          /\ MinistryNameTaken(d, rq.body["name"], 0)
       THEN Fail(d, ApiError(409))
  ELSE IF Has(rq.body, "leaderId") /\ ~Exists(d.members, rq.body["leaderId"])
       THEN Fail(d, ApiError(404))
  ELSE Ok([d EXCEPT !.ministries[id] = Merge(@, rq.body, MinistryUpdateFields)], 200)

ActiveMembers(d, k) ==
  {m \in Ids : d.ministryMember[<<k, m>>].exists /\ d.ministryMember[<<k, m>>].isActive}
ActiveEvents(d, k) ==
  {e \in Ids : d.events[e].exists /\ d.events[e].isActive /\ d.events[e].ministryId = k}
MinistryRefs(d, k) ==
  \/ \E m \in Ids : d.ministryMember[<<k, m>>].exists
  \/ \E e \in Ids : d.events[e].exists /\ d.events[e].ministryId = k

CascadeMinistry(d, k) ==
  [d EXCEPT
     !.ministries[k] = NoRow,
     !.ministryMember = [x \in DOMAIN @ |-> IF x[1] = k THEN NoRow ELSE @[x]],
     !.events = [e \in DOMAIN @ |->
        IF @[e].exists /\ @[e].ministryId = k THEN [@[e] EXCEPT !.ministryId = 0] ELSE @[e]]]

deleteMinistryFind(d, rq) ==
  LET id == P1(rq) IN
  IF ~Exists(d.ministries, id) THEN Fail(d, ApiError(404))
  ELSE IF ActiveMembers(d, id) # {} THEN Fail(d, ApiError(400))
  ELSE IF ActiveEvents(d, id) # {} THEN Fail(d, ApiError(400))
  ELSE Ok(d, 0)

deleteMinistryWrite(d, rq, fk) ==
  LET id == P1(rq) IN
  IF ~Exists(d.ministries, id) THEN Fail(d, PrismaKnownError("P2025"))
  ELSE IF MinistryRefs(d, id) /\ fk = "restrict" THEN Fail(d, PrismaKnownError("P2003"))
  ELSE Ok(CascadeMinistry(d, id), 200)

deleteMinistry(d, rq, fk) == Then(deleteMinistryFind(d, rq), deleteMinistryWrite(d, rq, fk))

getMinistryById(d, rq) ==
  IF ~Exists(d.ministries, P1(rq)) THEN Fail(d, ApiError(404)) ELSE Ok(d, 200)

memberActionValidationFails(rq) ==
  \/ idValidationFails(rq)
  \/ ~Has(rq.body, "memberId") \/ rq.body["memberId"] = 0
  \/ Has(rq.body, "role") /\ rq.body["role"] \notin MinistryRoles

\* addMember up to its write: the membership row it found.
addMemberFind(d, rq) ==
  LET k == P1(rq) IN
  IF memberActionValidationFails(rq) THEN Fail(d, ApiError(400))
  ELSE IF ~Exists(d.ministries, k) THEN Fail(d, ApiError(404))
  ELSE IF ~Exists(d.members, rq.body["memberId"]) THEN Fail(d, ApiError(404))
  ELSE LET ms == d.ministryMember[<<k, rq.body["memberId"]>>] IN
       IF ms.exists /\ ms.isActive THEN Fail(d, ApiError(409)) ELSE Ok(d, 0)

\* The update (reactivation) or create that addMember chose from the row it
\* had found.
addMemberWrite(d, rq, found) ==
  LET k == P1(rq)
      m == rq.body["memberId"]
      role == Get(rq.body, "role", "MEMBER")
      key == <<k, m>>
  IN  IF found
      THEN IF ~d.ministryMember[key].exists THEN Fail(d, PrismaKnownError("P2025"))
           ELSE Ok([d EXCEPT !.ministryMember[key] = MembershipRow(role, TRUE)], 201)
      ELSE IF d.ministryMember[key].exists THEN Fail(d, PrismaKnownError("P2002"))
           ELSE IF ~Exists(d.ministries, k) \/ ~Exists(d.members, m)
                THEN Fail(d, PrismaKnownError("P2003"))
           ELSE Ok([d EXCEPT !.ministryMember[key] = MembershipRow(role, TRUE)], 201)

addMember(d, rq) ==
  Then(addMemberFind(d, rq),
       addMemberWrite(d, rq, d.ministryMember[<<P1(rq), rq.body["memberId"]>>].exists))

removeMember(d, rq) ==
  LET key == <<P1(rq), P3(rq)>> IN
  IF ~(key \in DOMAIN d.ministryMember /\ d.ministryMember[key].exists
       /\ d.ministryMember[key].isActive)
  THEN Fail(d, ApiError(404))
  ELSE Ok([d EXCEPT !.ministryMember[key].isActive = FALSE], 200)

updateMemberRoleValidationFails(rq) ==
  \/ Len(rq.path) < 3 \/ ~IsUUID(rq.path[1]) \/ ~IsUUID(rq.path[3])
  \/ ~Has(rq.body, "role") \/ rq.body["role"] \notin MinistryRoles

updateMemberRole(d, rq) ==
  LET key == <<P1(rq), P3(rq)>> IN
  IF updateMemberRoleValidationFails(rq) THEN Fail(d, ApiError(400))
  ELSE IF ~(d.ministryMember[key].exists /\ d.ministryMember[key].isActive)
       THEN Fail(d, ApiError(404))
  ELSE Ok([d EXCEPT !.ministryMember[key].role = rq.body["role"]], 200)

(***************************************************************************)
(* EventController.  Modelled columns: title, isActive, organizerId,       *)
(* ministryId (0 for null), maxAttendees (0 for null).                     *)
(***************************************************************************)
EventRow(title, organizer, ministry, maxAtt, active) ==
  [exists |-> TRUE, title |-> title, isActive |-> active, organizerId |-> organizer,
   ministryId |-> ministry, maxAttendees |-> maxAtt]
RegistrationRow(active) == [exists |-> TRUE, isActive |-> active]
AttendanceRow(status) == [exists |-> TRUE, status |-> status]

createEventValidationFails(rq) ==
  \/ ~Has(rq.body, "title") \/ ~notEmpty(rq.body["title"])
  \/ ~Has(rq.body, "organizerId") \/ rq.body["organizerId"] = 0
  \/ Has(rq.body, "ministryId") /\ rq.body["ministryId"] = 0
  \/ Has(rq.body, "maxAttendees") /\ rq.body["maxAttendees"] < 1

updateEventValidationFails(rq) ==
  \/ idValidationFails(rq)
  \/ Has(rq.body, "title") /\ ~notEmpty(rq.body["title"])
  \/ Has(rq.body, "organizerId") /\ rq.body["organizerId"] = 0
  \/ Has(rq.body, "ministryId") /\ rq.body["ministryId"] = 0
  \/ Has(rq.body, "maxAttendees") /\ rq.body["maxAttendees"] < 1

createEvent(d, rq) ==
  IF createEventValidationFails(rq) THEN Fail(d, ApiError(400))
  ELSE IF ~Exists(d.members, rq.body["organizerId"]) THEN Fail(d, ApiError(404))
  ELSE IF Has(rq.body, "ministryId") /\ ~Exists(d.ministries, rq.body["ministryId"])
       THEN Fail(d, ApiError(404))
  ELSE Ok([d EXCEPT !.events = Insert(@,
             EventRow(rq.body["title"], rq.body["organizerId"],
                      Get(rq.body, "ministryId", 0), Get(rq.body, "maxAttendees", 0), TRUE))],
          201)

EventUpdateFields == {"title", "organizerId", "ministryId", "maxAttendees", "isActive"}

\* updateEvent does not look the organizer or the ministry up: a dangling id
\* fails the foreign key at the update.
updateEvent(d, rq) ==
  LET id == P1(rq) IN
  IF updateEventValidationFails(rq) THEN Fail(d, ApiError(400))
  ELSE IF ~Exists(d.events, id) THEN Fail(d, ApiError(404))
  ELSE IF \/ Has(rq.body, "organizerId") /\ ~Exists(d.members, rq.body["organizerId"])
          \/ Has(rq.body, "ministryId") /\ ~Exists(d.ministries, rq.body["ministryId"])
       THEN Fail(d, PrismaKnownError("P2003"))
  ELSE Ok([d EXCEPT !.events[id] = Merge(@, rq.body, EventUpdateFields)], 200)

\* deleteEvent's _count: registrations where isActive, and all attendances.
EventHasRelated(d, e) ==
  \/ \E m \in Ids : d.registrations[<<e, m>>].exists /\ d.registrations[<<e, m>>].isActive
  \/ \E m \in Ids : d.attendances[<<e, m>>].exists

EventRefs(d, e) ==
  \E m \in Ids : d.registrations[<<e, m>>].exists \/ d.attendances[<<e, m>>].exists

CascadeEvent(d, e) ==
  [d EXCEPT
     !.events[e] = NoRow,
     !.registrations = [k \in DOMAIN @ |-> IF k[1] = e THEN NoRow ELSE @[k]],
     !.attendances = [k \in DOMAIN @ |-> IF k[1] = e THEN NoRow ELSE @[k]]]

prismaEventDelete(d, e, fk) ==
  IF ~Exists(d.events, e) THEN Fail(d, PrismaKnownError("P2025"))
  ELSE IF EventRefs(d, e) /\ fk = "restrict" THEN Fail(d, PrismaKnownError("P2003"))
  ELSE Ok(CascadeEvent(d, e), 200)

deleteEvent(d, rq, fk) ==
  LET id == P1(rq) IN
  IF ~Exists(d.events, id) THEN Fail(d, ApiError(404))
  ELSE IF EventHasRelated(d, id) THEN Ok([d EXCEPT !.events[id].isActive = FALSE], 200)
  ELSE prismaEventDelete(d, id, fk)

getEventById(d, rq) ==
  IF ~Exists(d.events, P1(rq)) THEN Fail(d, ApiError(404)) ELSE Ok(d, 200)

(***************************************************************************)
(* ContributionController.  Modelled columns: amount, memberId (0 for      *)
(* null), isAnonymous.                                                     *)
(***************************************************************************)
ContributionRow(amount, member, anon) ==
  [exists |-> TRUE, amount |-> amount, memberId |-> member, isAnonymous |-> anon]

createContributionValidationFails(rq) ==
  \/ ~Has(rq.body, "amount") \/ ~(rq.body["amount"] > 0)
  \/ Has(rq.body, "memberId") /\ rq.body["memberId"] = 0

updateContributionValidationFails(rq) ==
  \/ idValidationFails(rq)
  \/ Has(rq.body, "amount") /\ ~(rq.body["amount"] > 0)
  \/ Has(rq.body, "memberId") /\ rq.body["memberId"] = 0

createContribution(d, rq) ==
  LET isAnonymous == Get(rq.body, "isAnonymous", FALSE)
      memberId == Get(rq.body, "memberId", 0)
  IN  IF createContributionValidationFails(rq) THEN Fail(d, ApiError(400))
      ELSE IF rq.body["amount"] <= 0 THEN Fail(d, ApiError(400))
      ELSE IF ~isAnonymous /\ memberId # 0 /\ ~Exists(d.members, memberId)
           THEN Fail(d, ApiError(404))
      ELSE Ok([d EXCEPT !.contributions = Insert(@,
                 ContributionRow(rq.body["amount"],
                                 IF isAnonymous THEN 0 ELSE memberId, isAnonymous))], 201)

\* updateData as updateContribution builds it: the member id follows the
\* anonymous status.
contributionUpdateData(body, existing) ==
  LET withAmount == IF Has(body, "amount") THEN [existing EXCEPT !.amount = body["amount"]]
                    ELSE existing
      withAnon == IF Has(body, "isAnonymous")
                  THEN [withAmount EXCEPT !.isAnonymous = body["isAnonymous"]]
                  ELSE withAmount
  IN  IF Has(body, "isAnonymous")
      THEN IF body["isAnonymous"] THEN [withAnon EXCEPT !.memberId = 0]
           ELSE IF Has(body, "memberId") THEN [withAnon EXCEPT !.memberId = body["memberId"]]
           ELSE withAnon
      ELSE IF Has(body, "memberId") /\ ~existing.isAnonymous
           THEN [withAnon EXCEPT !.memberId = body["memberId"]]
           ELSE withAnon

\* The member lookups of updateContribution: TRUE when one of them finds none.
contributionMemberMissing(d, body, existing) ==
  /\ Has(body, "memberId")
  /\ IF Has(body, "isAnonymous") THEN ~body["isAnonymous"] ELSE ~existing.isAnonymous
  /\ ~Exists(d.members, body["memberId"])

updateContribution(d, rq) ==
  LET id == P1(rq) IN
  IF updateContributionValidationFails(rq) THEN Fail(d, ApiError(400))
  ELSE IF ~Exists(d.contributions, id) THEN Fail(d, ApiError(404))
  ELSE IF Has(rq.body, "amount") /\ rq.body["amount"] <= 0 THEN Fail(d, ApiError(400))
  ELSE IF contributionMemberMissing(d, rq.body, d.contributions[id])
       THEN Fail(d, ApiError(404))
  ELSE Ok([d EXCEPT !.contributions[id] = contributionUpdateData(rq.body, @)], 200)

deleteContribution(d, rq) ==
  LET id == P1(rq) IN
  IF ~Exists(d.contributions, id) THEN Fail(d, ApiError(404))
  ELSE Ok([d EXCEPT !.contributions[id] = NoRow], 200)

getContributionById(d, rq) ==
  IF ~Exists(d.contributions, P1(rq)) THEN Fail(d, ApiError(404)) ELSE Ok(d, 200)

(***************************************************************************)
(* AnnouncementController.  Modelled columns: title, isPublished,          *)
(* isActive, authorId.                                                     *)
(***************************************************************************)
AnnouncementRow(title, author, published, active) ==
  [exists |-> TRUE, title |-> title, isPublished |-> published, isActive |-> active,
   authorId |-> author]

createAnnouncementValidationFails(rq) ==
  \/ ~Has(rq.body, "title") \/ ~notEmpty(rq.body["title"])
  \/ ~Has(rq.body, "authorId") \/ rq.body["authorId"] = 0

updateAnnouncementValidationFails(rq) ==
  \/ idValidationFails(rq)
  \/ Has(rq.body, "title") /\ ~notEmpty(rq.body["title"])

createAnnouncement(d, rq) ==
  IF createAnnouncementValidationFails(rq) THEN Fail(d, ApiError(400))
  ELSE IF ~Exists(d.members, rq.body["authorId"]) THEN Fail(d, ApiError(404))
  ELSE Ok([d EXCEPT !.announcements = Insert(@,
             AnnouncementRow(rq.body["title"], rq.body["authorId"],
                             Get(rq.body, "isPublished", FALSE), TRUE))], 201)

AnnouncementUpdateFields == {"title", "isPublished", "isActive"}

updateAnnouncement(d, rq) ==
  LET id == P1(rq) IN
  IF updateAnnouncementValidationFails(rq) THEN Fail(d, ApiError(400))
  ELSE IF ~Exists(d.announcements, id) THEN Fail(d, ApiError(404))
  ELSE Ok([d EXCEPT !.announcements[id] = Merge(@, rq.body, AnnouncementUpdateFields)], 200)

deleteAnnouncement(d, rq) ==
  LET id == P1(rq) IN
  IF ~Exists(d.announcements, id) THEN Fail(d, ApiError(404))
  ELSE Ok([d EXCEPT !.announcements[id].isActive = FALSE,
                    !.announcements[id].isPublished = FALSE], 200)

getAnnouncementById(d, rq) ==
  IF ~Exists(d.announcements, P1(rq)) THEN Fail(d, ApiError(404)) ELSE Ok(d, 200)

(***************************************************************************)
(* services/MemberService.ts behind MemberController (create, update): the *)
(* service throws ConflictError or returns null, the controller answers or *)
(* forwards to errorHandler.                                               *)
(***************************************************************************)
\* The duplicate check of MemberService.update without the comparison with
\* the member's own email.
ServiceEmailChanges_Always(data, existing) == Truthy(data, "email")

\* if (data.email && data.email !== existingMember.email)
ServiceEmailChanges(data, existing) ==
  Truthy(data, "email") /\ data["email"] # existing.email

MemberService_create(d, data) ==
  IF Truthy(data, "email")
     /\ \E j \in Ids : d.members[j].exists /\ d.members[j].email = data["email"]
  THEN Fail(d, ConflictError)
  ELSE IF ~Has(data, "name") THEN Fail(d, PrismaValidationError)
  ELSE IF UniqueEmailTaken(d.members, Get(data, "email", NULL), 0)
       THEN Fail(d, PrismaKnownError("P2002"))
  ELSE Ok([d EXCEPT !.members = Insert(@,
             MemberRow(data["name"], Get(data, "email", NULL), TRUE))], 201)

MemberService_update(d, id, data) ==
  IF ~Exists(d.members, id) THEN Fail(d, NotFoundError)
  ELSE IF ServiceEmailChanges(data, d.members[id])
          /\ \E j \in Ids : d.members[j].exists /\ d.members[j].email = data["email"]
       THEN Fail(d, ConflictError)
  ELSE LET fields == (IF Truthy(data, "name") THEN {"name"} ELSE {}) \cup {"email", "isActive"}
           new == Merge(d.members[id], data, fields)
       IN  IF UniqueEmailTaken(d.members, new.email, id) THEN Fail(d, PrismaKnownError("P2002"))
           ELSE Ok([d EXCEPT !.members[id] = new], 200)

MemberController_create(d, rq) == MemberService_create(d, rq.body)
MemberController_update(d, rq) == MemberService_update(d, P1(rq), rq.body)

(***************************************************************************)
(* NewAuthController.register                                              *)
(***************************************************************************)
registerValidationFails(rq) ==
  \/ ~Has(rq.body, "name") \/ ~notEmpty(rq.body["name"])
  \/ ~Has(rq.body, "email") \/ ~isEmail(rq.body["email"])
  \/ ~Has(rq.body, "password") \/ ~notEmpty(rq.body["password"])

\* register up to the await of bcrypt.hash and prisma.user.create.
registerCheck(d, rq) ==
  IF registerValidationFails(rq) THEN Fail(d, ApiError(400))
  ELSE IF \E u \in UserIds : d.users[u].exists /\ d.users[u].email = rq.body["email"]
       THEN Fail(d, ConflictError)
  ELSE Ok(d, 0)

\* prisma.user.create, generateToken and the 201 response.
registerWrite(d, rq) ==
  IF UniqueEmailTaken(d.users, rq.body["email"], 0) THEN Fail(d, PrismaKnownError("P2002"))
  ELSE Ok([d EXCEPT !.users = Insert(@,
             [UserRow(rq.body["email"], TRUE, <<>>) EXCEPT
                !.role = Get(rq.body, "role", "member")])], 201)

register(d, rq) == Then(registerCheck(d, rq), registerWrite(d, rq))

(***************************************************************************)
(* The request pipeline.  A request walks the layers of its router in      *)
(* registration order; each await of a middleware is a step of its own.    *)
(***************************************************************************)
RunHandler(h, d, rq, fk) ==
  CASE h = "getMemberById" -> getMemberById(d, rq)
    [] h = "createMember" -> createMember(d, rq)
    [] h = "updateMember" -> updateMember(d, rq)
    [] h = "deleteMember" -> deleteMember(d, rq, fk)
    [] h = "getMinistryById" -> getMinistryById(d, rq)
    [] h = "createMinistry" -> createMinistry(d, rq)
    [] h = "updateMinistry" -> updateMinistry(d, rq)
    [] h = "deleteMinistry" -> deleteMinistry(d, rq, fk)
    [] h = "addMember" -> addMember(d, rq)
    [] h = "removeMember" -> removeMember(d, rq)
    [] h = "updateMemberRole" -> updateMemberRole(d, rq)
    [] h = "getEventById" -> getEventById(d, rq)
    [] h = "createEvent" -> createEvent(d, rq)
    [] h = "updateEvent" -> updateEvent(d, rq)
    [] h = "deleteEvent" -> deleteEvent(d, rq, fk)
    [] h = "getContributionById" -> getContributionById(d, rq)
    [] h = "createContribution" -> createContribution(d, rq)
    [] h = "updateContribution" -> updateContribution(d, rq)
    [] h = "deleteContribution" -> deleteContribution(d, rq)
    [] h = "getAnnouncementById" -> getAnnouncementById(d, rq)
    [] h = "createAnnouncement" -> createAnnouncement(d, rq)
    [] h = "updateAnnouncement" -> updateAnnouncement(d, rq)
    [] h = "deleteAnnouncement" -> deleteAnnouncement(d, rq)
    [] h = "register" -> register(d, rq)
    [] h = "MemberController.create" -> MemberController_create(d, rq)
    [] h = "MemberController.update" -> MemberController_update(d, rq)

\* The handlers RunHandler runs, and the table a create of each inserts into.
CreateTable(h) ==
  CASE h = "createMember" -> "members"
    [] h = "createMinistry" -> "ministries"
    [] h = "createEvent" -> "events"
    [] h = "createContribution" -> "contributions"
    [] h = "createAnnouncement" -> "announcements"
    [] h = "register" -> "users"
    [] h = "MemberController.create" -> "members"
    [] OTHER -> ""

\* The bounded id space has a free id for the row the handler inserts.
HasRoom(d, h) == CreateTable(h) # "" => FreeId(d[CreateTable(h)]) # 0

\* A client sends one of the requests in S.
NewRequest(r, S) ==
  /\ reqs[r].pc = "idle"
  /\ \E q \in S :
       reqs' = [reqs EXCEPT ![r] = StartReq(q.router, q.method, q.path, q.auth, q.body, q.query, db)]
  /\ UNCHANGED <<db, fkMode>>

\* authenticate, to the await of prisma.user.findUnique and the checks on
\* its result.
Authenticate(r) ==
  LET rq == reqs[r] IN
  /\ OnLayer(rq) /\ AtLayer(rq).kind = "use" /\ AtLayer(rq).mw = "authenticate"
  /\ rq.loc = NoRow
  /\ LET res == authenticateLookup(db, rq.auth) IN
       reqs' = [reqs EXCEPT ![r] =
                  IF res.ok
                  THEN [rq EXCEPT !.loc = [exists |-> TRUE, id |-> res.id,
                                           role |-> primaryRole(db.users[res.id])]]
                  ELSE Respond(rq, errorHandler(res.err))]
  /\ UNCHANGED <<db, fkMode>>

\* authenticate, from the await of prisma.user.update: lastLogin is written,
\* req.user is set from the row read before, next() is called.
AuthenticateUpdate(r) ==
  LET rq == reqs[r] IN
  /\ OnLayer(rq) /\ AtLayer(rq).kind = "use" /\ AtLayer(rq).mw = "authenticate"
  /\ rq.loc # NoRow
  /\ db' = [db EXCEPT !.users[rq.loc.id].lastLogin = "now"]
  /\ reqs' = [reqs EXCEPT ![r] =
                [Advance(rq) EXCEPT !.user = [id |-> rq.loc.id, role |-> rq.loc.role],
                                    !.loc = NoRow,
                                    !.trail = Append(@, "authenticate")]]
  /\ UNCHANGED fkMode

Authorize(r) ==
  LET rq == reqs[r] IN
  /\ OnLayer(rq) /\ AtLayer(rq).kind = "use" /\ AtLayer(rq).mw = "authorize"
  /\ LET res == authorizeCheck(AtLayer(rq).roles, rq.user) IN
       reqs' = [reqs EXCEPT ![r] =
                  IF res.ok THEN [Advance(rq) EXCEPT !.trail = Append(@, "authorize")]
                  ELSE Respond(rq, errorHandler(res.err))]
  /\ UNCHANGED <<db, fkMode>>

\* The route's handler, run to its response.
Handle(r) ==
  LET rq == reqs[r] IN
  /\ OnLayer(rq) /\ AtLayer(rq).kind = "route"
  /\ rq.pre = Len(AtLayer(rq).pre)
  /\ LET res == RunHandler(AtLayer(rq).handler, db, rq, fkMode) IN
       /\ res.status = 201 => HasRoom(db, AtLayer(rq).handler)
       /\ db' = res.db
       /\ reqs' = [reqs EXCEPT ![r] =
                     [Respond(rq, res.status) EXCEPT !.handler = AtLayer(rq).handler]]
  /\ UNCHANGED fkMode

\* No layer is left: Express answers 404.
FallThrough(r) ==
  LET rq == reqs[r] IN
  /\ rq.pc = "walk" /\ rq.layer > Len(Stack(rq))
  /\ reqs' = [reqs EXCEPT ![r] = Respond(rq, 404)]
  /\ UNCHANGED <<db, fkMode>>

\* An administrator deactivates a user account.
DeactivateUser(u) ==
  /\ db.users[u].exists /\ db.users[u].isActive
  /\ db' = [db EXCEPT !.users[u].isActive = FALSE]
  /\ UNCHANGED <<reqs, fkMode>>

(***************************************************************************)
(* SpecRoute: one request against the five resource routers, sent by any   *)
(* kind of client, while an administrator may deactivate accounts.         *)
(***************************************************************************)
EmailOf(i) == CASE i = 1 -> "e1" [] i = 2 -> "e2" [] OTHER -> "e3"

RoleSeqs ==
  { <<>>, <<"ADMIN">>, <<"SUPER_ADMIN">>, <<"TREASURER">>, <<"MINISTRY_LEADER">>,
    <<"ADMIN", "SUPER_ADMIN">> }

\* The accounts: user 1 is any kind of account (or none), the others are
\* active super administrators.
SeedUsers ==
  { [u \in UserIds |-> IF u = 1 THEN c ELSE UserRow(EmailOf(u), TRUE, <<"SUPER_ADMIN">>)] :
      c \in {NoRow} \cup {UserRow(EmailOf(1), a, rs) : a \in BOOLEAN, rs \in RoleSeqs} }

\* One row of each resource, under id 1.
SeedDB ==
  [EmptyDB EXCEPT
     !.members[1] = MemberRow("n1", "e1", TRUE),
     !.ministries[1] = MinistryRow("n1", 1, TRUE),
     !.events[1] = EventRow("n1", 1, 0, 0, TRUE),
     !.contributions[1] = ContributionRow(5, 1, FALSE),
     !.announcements[1] = AnnouncementRow("n1", 1, FALSE, TRUE)]

ResourceRouters == {"members", "ministries", "events", "contributions", "announcements"}
Mutating == {"POST", "PUT", "DELETE"}

Tokens ==
  {NoAuth, BasicAuth, Bearer("bad", "id", 1), Bearer("expired", "id", 1)}
    \cup {Bearer("ok", c, u) : c \in {"id", "userId"}, u \in UserIds}

\* A body that every create accepts, and a partial one for the updates.
FullBody ==
  [name |-> "n2", title |-> "n2", email |-> "e2", leaderId |-> 1, organizerId |-> 1,
   authorId |-> 1, amount |-> 7]
PatchBody == [name |-> "n2", title |-> "n2", isActive |-> FALSE, amount |-> 7]

RouteRequests ==
  { q \in [router : ResourceRouters, method : Mutating \cup {"GET"},
           path : {<<>>} \cup {<<IdSeg(i)>> : i \in Ids}, auth : Tokens,
           body : {NoBody, FullBody, PatchBody}, query : {NoBody}] :
      /\ ~(q.method = "GET" /\ q.path = <<>>)
      /\ q.method \in {"GET", "DELETE"} => q.body = NoBody }

InitRoute ==
  /\ \E us \in SeedUsers : db = [SeedDB EXCEPT !.users = us]
  /\ reqs = [r \in ReqIds |-> IdleReq]
  /\ fkMode \in {"restrict", "cascade"}

NextRoute ==
  \/ NewRequest(1, RouteRequests)
  \/ Authenticate(1)
  \/ AuthenticateUpdate(1)
  \/ Authorize(1)
  \/ Handle(1)
  \/ FallThrough(1)
  \/ \E u \in UserIds : DeactivateUser(u)

SpecRoute == InitRoute /\ [][NextRoute]_vars

(***************************************************************************)
(* SpecCrud: one create, update or delete of an authorized client (a super *)
(* administrator) against a database with every combination of dependent   *)
(* rows, and one direct call of MemberController, which no router mounts.  *)
(***************************************************************************)
\* A body field that may be absent.
Field(f, present, v) == IF present THEN (f :> v) ELSE NoBody

MemberBodies ==
  { Field("name", n # "-", n) @@ Field("email", e # "-", e)
      @@ Field("isActive", a # "-", a = "T") :
      n \in {"-", "n3", ""}, e \in {"-", "e1", "e2"}, a \in {"-", "F"} }
MinistryBodies ==
  { Field("name", n # "-", n) @@ Field("leaderId", l # -1, l)
      @@ Field("isActive", a # "-", a = "T") :
      n \in {"-", "n3"}, l \in {-1, 1}, a \in {"-", "F"} }
EventBodies ==
  { Field("title", n # "-", n) @@ Field("organizerId", o # -1, o)
      @@ Field("ministryId", k # -1, k) @@ Field("maxAttendees", x # -1, x)
      @@ Field("isActive", a # "-", a = "T") :
      n \in {"-", "n3"}, o \in {-1, 1}, k \in {-1, 1}, x \in {-1, 3}, a \in {"-", "F"} }
ContributionBodies ==
  { Field("amount", x # -1, x) @@ Field("memberId", m # -1, m)
      @@ Field("isAnonymous", a # "-", a = "T") :
      x \in {-1, 7}, m \in {-1, 1}, a \in {"-", "T", "F"} }
AnnouncementBodies ==
  { Field("title", n # "-", n) @@ Field("authorId", o # -1, o)
      @@ Field("isPublished", q # "-", q = "T") @@ Field("isActive", a # "-", a = "T") :
      n \in {"-", "n3"}, o \in {-1, 1}, q \in {"-", "F"}, a \in {"-", "F"} }

BodiesOf(router) ==
  CASE router = "members" -> MemberBodies
    [] router = "ministries" -> MinistryBodies
    [] router = "events" -> EventBodies
    [] router = "contributions" -> ContributionBodies
    [] router = "announcements" -> AnnouncementBodies

AdminToken == Bearer("ok", "id", 1)

CrudRequests ==
  UNION { { [router |-> ro, method |-> q.method, path |-> q.path, auth |-> AdminToken,
             body |-> q.body, query |-> NoBody] :
              q \in ([method : {"POST"}, path : {<<>>}, body : BodiesOf(ro)]
                     \cup [method : {"PUT"}, path : {<<IdSeg(i)>> : i \in Ids},
                           body : BodiesOf(ro)]
                     \cup [method : {"DELETE"}, path : {<<IdSeg(i)>> : i \in Ids},
                           body : {NoBody}]) } :
          ro \in ResourceRouters }

ControllerCalls ==
  [handler : {"MemberController.create"}, path : {<<>>}, body : MemberBodies]
    \cup [handler : {"MemberController.update"}, path : {<<IdSeg(i)>> : i \in Ids},
          body : MemberBodies]

\* Member 1 leads, organizes and writes; member 2 (when there is one) has
\* any combination of a contribution, a ministry membership, an event
\* registration (each current or ended) and an attendance record.
CrudSeeds ==
  { [SeedDB EXCEPT
       !.users = [u \in UserIds |-> UserRow(EmailOf(u), TRUE, <<"SUPER_ADMIN">>)],
       !.members[2] = m2,
       !.contributions[1] = IF c = 0 THEN ContributionRow(5, 0, TRUE)
                            ELSE ContributionRow(5, c, FALSE),
       !.ministryMember[<<1, 2>>] = mm,
       !.registrations[<<1, 2>>] = rg,
       !.attendances[<<1, 2>>] = at] :
      m2 \in {NoRow, MemberRow("n2", "e2", TRUE), MemberRow("n2", NULL, FALSE)},
      c \in {0, 1, 2},
      mm \in {NoRow, MembershipRow("MEMBER", TRUE), MembershipRow("MEMBER", FALSE)},
      rg \in {NoRow, RegistrationRow(TRUE), RegistrationRow(FALSE)},
      at \in {NoRow, AttendanceRow("PRESENT")} }

\* No row refers to a member that is not there.
SeedIntegrity(d) ==
  d.members[2].exists \/
    /\ d.contributions[1].memberId # 2
    /\ ~d.ministryMember[<<1, 2>>].exists
    /\ ~d.registrations[<<1, 2>>].exists
    /\ ~d.attendances[<<1, 2>>].exists

\* A controller that no router mounts, called with a request.
CallController(r, S) ==
  /\ reqs[r].pc = "idle"
  /\ \E q \in S :
       /\ LET rq == [IdleReq EXCEPT !.pc = "walk", !.path = q.path, !.body = q.body,
                                    !.snap = db]
              res == RunHandler(q.handler, db, rq, fkMode)
          IN  /\ res.status = 201 => HasRoom(db, q.handler)
              /\ db' = res.db
              /\ reqs' = [reqs EXCEPT ![r] =
                            [Respond(rq, res.status) EXCEPT !.handler = q.handler]]
  /\ UNCHANGED fkMode

InitCrud ==
  /\ db \in {d \in CrudSeeds : SeedIntegrity(d)}
  /\ reqs = [r \in ReqIds |-> IdleReq]
  /\ fkMode \in {"restrict", "cascade"}

NextCrud ==
  \/ NewRequest(1, CrudRequests)
  \/ Authenticate(1)
  \/ AuthenticateUpdate(1)
  \/ Authorize(1)
  \/ Handle(1)
  \/ CallController(1, ControllerCalls)

SpecCrud == InitCrud /\ [][NextCrud]_vars

(***************************************************************************)
(* SpecRace: concurrent createMember, updateMember and register requests,  *)
(* each handler taking one step per await, so that the duplicate lookups   *)
(* and the writes of different requests interleave.                        *)
(***************************************************************************)
AtHandler(rq, h) == OnLayer(rq) /\ AtLayer(rq).kind = "route" /\ AtLayer(rq).handler = h
\* The handler goes on to its next await, or answers.
StepTo(rq, h, res, pc) ==
  IF res.status # 0 THEN [Respond(rq, res.status) EXCEPT !.handler = h]
  ELSE [rq EXCEPT !.pc = pc, !.handler = h, !.trail = Append(@, "checked")]

CreateMemberCheck(r) ==
  /\ AtHandler(reqs[r], "createMember")
  /\ reqs' = [reqs EXCEPT ![r] = StepTo(@, "createMember", createMemberCheck(db, @), "write")]
  /\ UNCHANGED <<db, fkMode>>

CreateMemberWrite(r) ==
  LET rq == reqs[r]
      res == createMemberWrite(db, rq)
  IN  /\ rq.pc = "write" /\ rq.handler = "createMember"
      /\ res.status = 201 => HasRoom(db, "createMember")
      /\ db' = res.db
      /\ reqs' = [reqs EXCEPT ![r] = Respond(rq, res.status)]
      /\ UNCHANGED fkMode

UpdateMemberFind(r) ==
  LET rq == reqs[r] IN
  /\ AtHandler(rq, "updateMember")
  /\ reqs' = [reqs EXCEPT ![r] =
                [StepTo(rq, "updateMember", updateMemberFind(db, rq), "check") EXCEPT
                   !.loc = IF Exists(db.members, P1(rq)) THEN db.members[P1(rq)] ELSE NoRow]]
  /\ UNCHANGED <<db, fkMode>>

UpdateMemberEmailCheck(r) ==
  LET rq == reqs[r] IN
  /\ rq.pc = "check" /\ rq.handler = "updateMember"
  /\ reqs' = [reqs EXCEPT ![r] =
                StepTo(rq, "updateMember", updateMemberEmailCheck(db, rq, rq.loc), "write")]
  /\ UNCHANGED <<db, fkMode>>

UpdateMemberWrite(r) ==
  LET rq == reqs[r]
      res == updateMemberWrite(db, rq)
  IN  /\ rq.pc = "write" /\ rq.handler = "updateMember"
      /\ db' = res.db
      /\ reqs' = [reqs EXCEPT ![r] = Respond(rq, res.status)]
      /\ UNCHANGED fkMode

RegisterCheck(r) ==
  /\ AtHandler(reqs[r], "register")
  /\ reqs' = [reqs EXCEPT ![r] = StepTo(@, "register", registerCheck(db, @), "write")]
  /\ UNCHANGED <<db, fkMode>>

RegisterWrite(r) ==
  LET rq == reqs[r]
      res == registerWrite(db, rq)
  IN  /\ rq.pc = "write" /\ rq.handler = "register"
      /\ res.status = 201 => HasRoom(db, "register")
      /\ db' = res.db
      /\ reqs' = [reqs EXCEPT ![r] = Respond(rq, res.status)]
      /\ UNCHANGED fkMode

RaceRequests ==
  UNION { { [router |-> "members", method |-> "POST", path |-> <<>>, auth |-> NoAuth,
             body |-> [name |-> "n3", email |-> e], query |-> NoBody],
            [router |-> "auth", method |-> "POST", path |-> <<Lit("register")>>,
             auth |-> NoAuth, body |-> [name |-> "n3", email |-> e, password |-> "pw"],
             query |-> NoBody] }
          \cup { [router |-> "members", method |-> "PUT", path |-> <<IdSeg(i)>>,
                  auth |-> NoAuth, body |-> [email |-> e], query |-> NoBody] : i \in Ids } :
          e \in {"e1", "e2"} }

\* No member and no account yet, or the first of each, or also a second
\* member without an email.
RaceSeeds ==
  { [EmptyDB EXCEPT !.members = m, !.users = u] :
      m \in { EmptyTable(Ids),
              [EmptyTable(Ids) EXCEPT ![1] = MemberRow("n1", "e1", TRUE)],
              [EmptyTable(Ids) EXCEPT ![1] = MemberRow("n1", "e1", TRUE),
                                      ![2] = MemberRow("n2", NULL, TRUE)] },
      u \in { EmptyTable(UserIds),
              [EmptyTable(UserIds) EXCEPT ![1] = UserRow("e1", TRUE, <<>>)] } }

InitRace ==
  /\ db \in RaceSeeds
  /\ reqs = [r \in ReqIds |-> IdleReq]
  /\ fkMode = "restrict"

NextRace ==
  \E r \in ReqIds :
    \/ NewRequest(r, RaceRequests)
    \/ CreateMemberCheck(r)
    \/ CreateMemberWrite(r)
    \/ UpdateMemberFind(r)
    \/ UpdateMemberEmailCheck(r)
    \/ UpdateMemberWrite(r)
    \/ RegisterCheck(r)
    \/ RegisterWrite(r)

SpecRace == InitRace /\ [][NextRace]_vars

(***************************************************************************)
(* Listing.  prisma.<model>.findMany and count over a table, and the list  *)
(* handlers that page through it.                                          *)
(***************************************************************************)
\* The collation of the names the listings sort by.
Names == <<"n1", "n2", "n3", "n4">>
NameRank(name) == CHOOSE k \in 1..Len(Names) : Names[k] = name

\* where: {isActive} when the handler sets it.
Matches(row, where) ==
  row.exists /\ (where.isActive.t = "boolean" => row.isActive = where.isActive.b)
Matching(tbl, where) == {i \in DOMAIN tbl : Matches(tbl[i], where)}
count(tbl, where) == Cardinality(Matching(tbl, where))

\* orderBy: {[by]: dir}.  createdAt orders the rows as they were made, which
\* in a seeded table is the order of their ids.
SortKey(tbl, i, by) == IF by = "name" THEN NameRank(tbl[i].name) ELSE i
Precedes(tbl, i, j, orderBy) ==
  IF orderBy.dir = "asc" THEN SortKey(tbl, i, orderBy.by) < SortKey(tbl, j, orderBy.by)
  ELSE SortKey(tbl, i, orderBy.by) > SortKey(tbl, j, orderBy.by)
RECURSIVE Sorted(_, _, _)
Sorted(tbl, S, orderBy) ==
  IF S = {} THEN <<>>
  ELSE LET h == CHOOSE i \in S : \A j \in S \ {i} : Precedes(tbl, i, j, orderBy)
       IN  <<h>> \o Sorted(tbl, S \ {h}, orderBy)

\* Prisma refuses a skip or take that is no integer and a negative skip.
findManyRejects(skip, take) == skip.t # "number" \/ take.t # "number" \/ skip.n < 0
\* findMany({where, skip, take, orderBy}) with take >= 0: the ids of the rows.
findMany(tbl, where, skip, take, orderBy) ==
  LET all == Sorted(tbl, Matching(tbl, where), orderBy)
  IN  SubSeq(all, skip.n + 1, Min(skip.n + take.n, Len(all)))

ListOk(data, pagination) ==
  [status |-> 200, queried |-> TRUE, data |-> data, pagination |-> pagination]
ListFail(err) ==
  [NoJson EXCEPT !.status = errorHandler(err), !.queried = TRUE]

\* skip = page * limit: the first page is never served.
listPaging_FromPage(query) ==
  LET page == QueryOr(query, "page", Num(1))
      limit == QueryOr(query, "limit", Num(10))
  IN  [skip |-> Times(parseInt(page), parseInt(limit)), take |-> parseInt(limit)]

\* getMembers and getMinistries read the query the same way: skip and take,
\* the where clause and the order.
listPaging(query) ==
  LET page == QueryOr(query, "page", Num(1))
      limit == QueryOr(query, "limit", Num(10))
  IN  [skip |-> Times(Minus(parseInt(page), Num(1)), parseInt(limit)),
       take |-> parseInt(limit)]
listWhere(query) ==
  LET isActive == QueryOr(query, "isActive", Bool(TRUE))
  IN  [isActive |-> IF isActive # Undefined THEN Bool(isActive = Str("true")) ELSE Undefined]
listOrderBy(query) ==
  [by |-> Get(query, "sortBy", "name"), dir |-> Get(query, "sortOrder", "asc")]
listResponse(tbl, query) ==
  LET page == QueryOr(query, "page", Num(1))
      limit == QueryOr(query, "limit", Num(10))
      p == listPaging(query)
      where == listWhere(query)
  IN  IF findManyRejects(p.skip, p.take) THEN ListFail(PrismaValidationError)
      ELSE LET rows == findMany(tbl, where, p.skip, p.take, listOrderBy(query))
               total == count(tbl, where)
               totalPages == MathCeil(total, p.take)
           IN  ListOk(rows,
                      [page |-> parseInt(page), limit |-> parseInt(limit),
                       total |-> total, totalPages |-> totalPages,
                       hasNext |-> Less(parseInt(page), totalPages),
                       hasPrev |-> Less(Num(1), parseInt(page))])

getMembers(d, rq) == listResponse(d.members, rq.query)
getMinistries(d, rq) == listResponse(d.ministries, rq.query)

\* routes: queryValidation, as far as page and limit go (isInt({min: 1}),
\* isInt({min: 1, max: 100}), both optional); the chain only records what
\* it finds.
isInt(s, opts) ==
  /\ s \in DOMAIN IntLiterals
  /\ Has(opts, "min") => opts["min"] <= IntLiterals[s]
  /\ Has(opts, "max") => IntLiterals[s] <= opts["max"]
queryValidationFails(query) ==
  \/ Has(query, "page") /\ ~isInt(query["page"], [min |-> 1])
  \/ Has(query, "limit") /\ ~isInt(query["limit"], [min |-> 1, max |-> 100])

\* BaseController
getPagination(page, limit) ==
  [skip |-> Times(Minus(page, Num(1)), limit), take |-> limit, page |-> page, limit |-> limit]
buildPaginatedResponse(data, total, page, limit) ==
  LET totalPages == MathCeil(total, limit)
  IN  ListOk(data, [page |-> page, limit |-> limit, total |-> total,
                    totalPages |-> totalPages,
                    hasNext |-> Less(page, totalPages), hasPrev |-> Less(Num(1), page)])

\* MemberService.findAll
findAllWhere(params) ==
  [isActive |-> IF params.isActive # Undefined THEN params.isActive ELSE Undefined]
MemberService_findAll(d, params) ==
  LET where == findAllWhere(params)
      orderBy == [by |-> params.sortBy, dir |-> params.sortOrder]
  IN  [members |-> findMany(d.members, where, params.skip, params.take, orderBy),
       total |-> count(d.members, where)]

\* MemberController.getAll
getAllParams(query) ==
  LET page == QueryOr(query, "page", Num(1))
      limit == QueryOr(query, "limit", Num(10))
      isActive == QueryOr(query, "isActive", Undefined)
      pagination == getPagination(Number(page), Number(limit))
  IN  [skip |-> pagination.skip, take |-> pagination.take,
       isActive |-> Bool(isActive = Str("true")),
       sortBy |-> Get(query, "sortBy", "createdAt"),
       sortOrder |-> Get(query, "sortOrder", "desc")]
MemberController_getAll(d, rq) ==
  LET page == QueryOr(rq.query, "page", Num(1))
      limit == QueryOr(rq.query, "limit", Num(10))
      params == getAllParams(rq.query)
  IN  IF findManyRejects(params.skip, params.take) THEN ListFail(PrismaValidationError)
      ELSE LET found == MemberService_findAll(d, params)
           IN  buildPaginatedResponse(found.members, found.total, Number(page), Number(limit))

(***************************************************************************)
(* SpecList: list requests over seeded tables.                             *)
(***************************************************************************)
ListHandlers == {"getMembers", "getMinistries"}
RunList(h, d, rq) ==
  CASE h = "getMembers" -> getMembers(d, rq)
    [] h = "getMinistries" -> getMinistries(d, rq)

\* The route's list handler, run to its response; the validation chain
\* before it has recorded its findings in the request.
List(r) ==
  LET rq == reqs[r] IN
  /\ OnLayer(rq) /\ AtLayer(rq).kind = "route"
  /\ AtLayer(rq).handler \in ListHandlers
  /\ LET res == RunList(AtLayer(rq).handler, db, rq) IN
       reqs' = [reqs EXCEPT ![r] =
                  [Respond(rq, res.status) EXCEPT !.handler = AtLayer(rq).handler,
                                                  !.json = res,
                                                  !.errors = queryValidationFails(rq.query)]]
  /\ UNCHANGED <<db, fkMode>>

\* MemberController.getAll, which no router mounts, called with a query.
CallList(r, S) ==
  /\ reqs[r].pc = "idle"
  /\ \E q \in S :
       LET rq == [IdleReq EXCEPT !.pc = "walk", !.query = q, !.snap = db]
           res == MemberController_getAll(db, rq)
       IN  reqs' = [reqs EXCEPT ![r] =
                      [Respond(rq, res.status) EXCEPT !.handler = "MemberController.getAll",
                                                      !.json = res]]
  /\ UNCHANGED <<db, fkMode>>

ListQueries ==
  { Field("page", p # "-", p) @@ Field("limit", l # "-", l)
      @@ Field("isActive", a # "-", a) @@ Field("sortOrder", o # "-", o) :
      p \in {"-", "0", "1", "2", "3", "abc"}, l \in {"-", "0", "1", "2", "101", "abc"},
      a \in {"-", "true", "false"}, o \in {"-", "desc"} }

ListRequests ==
  [router : {"members", "ministries"}, method : {"GET"}, path : {<<>>},
   auth : {NoAuth, AdminToken}, body : {NoBody}, query : ListQueries]

\* Row i of each table is absent, active or soft-deactivated; names run
\* against the ids, so the order by name is not the order of creation.
ListName(i) == Names[MaxId + 1 - i]
ListSeeds ==
  { [EmptyDB EXCEPT
       !.users = [u \in UserIds |-> UserRow(EmailOf(u), TRUE, <<"SUPER_ADMIN">>)],
       !.members = [i \in Ids |-> IF f[i] = "none" THEN NoRow
                                  ELSE MemberRow(ListName(i), NULL, f[i] = "active")],
       !.ministries = [i \in Ids |-> IF f[i] = "none" THEN NoRow
                                     ELSE MinistryRow(ListName(i), 0, f[i] = "active")]] :
      f \in [Ids -> {"none", "active", "inactive"}] }

InitList ==
  /\ db \in ListSeeds
  /\ reqs = [r \in ReqIds |-> IdleReq]
  /\ fkMode = "restrict"

NextList ==
  \/ NewRequest(1, ListRequests)
  \/ Authenticate(1)
  \/ AuthenticateUpdate(1)
  \/ List(1)
  \/ CallList(1, ListQueries)

SpecList == InitList /\ [][NextList]_vars

(***************************************************************************)
(* SpecErr: handlers forward errors to errorHandler.                       *)
(***************************************************************************)
\* The errors the handlers, the middleware and the libraries produce, each
\* with what kind of failure it reports.
ThrownErrors ==
  [kind : {"validation"}, err : {ValidationError, ApiError(400), MongooseValidationError}]
    \cup [kind : {"authentication"},
          err : {UnauthorizedError, ApiError(401), JsonWebTokenError, TokenExpiredError}]
    \cup [kind : {"authorization"}, err : {ForbiddenError, ApiError(403)}]
    \cup [kind : {"not-found"},
          err : {NotFoundError, ApiError(404), PrismaKnownError("P2025"), CastError}]
    \cup [kind : {"conflict"},
          err : {ConflictError, ApiError(409), PrismaKnownError("P2002"), DuplicateKeyError}]
    \cup [kind : {"other"},
          err : {PlainError, PrismaValidationError, PrismaKnownError("P2003"),
                 CustomError(500), ApiError(500)}]

\* catch (error) { next(error) }: the error reaches errorHandler, which
\* answers the request.
Forward(r) ==
  /\ reqs[r].pc = "idle"
  /\ \E t \in ThrownErrors :
       reqs' = [reqs EXCEPT ![r] =
                  [Respond(IdleReq, errorHandler(t.err)) EXCEPT
                     !.thrown = t, !.sent = errorBody(t.err)]]
  /\ UNCHANGED <<db, fkMode>>

InitErr ==
  /\ db = EmptyDB
  /\ reqs = [r \in ReqIds |-> IdleReq]
  /\ fkMode = "restrict"

NextErr == \E r \in ReqIds : Forward(r)

SpecErr == InitErr /\ [][NextErr]_vars

(***************************************************************************)
(* SpecStats: the member statistics, whose counts are separate queries     *)
(* issued together (Promise.all) and answered one by one, while another    *)
(* request writes members.                                                 *)
(***************************************************************************)
StatsHandlers == {"getMemberStats", "MemberController.getStats"}
\* The counts a statistics handler waits for.
StatsQueries(h) ==
  IF h = "getMemberStats" THEN {"total", "active"} ELSE {"total", "active", "inactive"}

\* prisma.member.count(), count({where: {isActive: true}}) and
\* count({where: {isActive: false}}).
memberCount(d, q) ==
  CASE q = "total" -> Cardinality({i \in Ids : d.members[i].exists})
    [] q = "active" -> Cardinality({i \in Ids : d.members[i].exists /\ d.members[i].isActive})
    [] q = "inactive" -> Cardinality({i \in Ids : d.members[i].exists /\ ~d.members[i].isActive})

\* The statistics each handler returns from the counts it read:
\* getMemberStats derives inactive, MemberService.getStats reports the
\* count it queried.
statsResult(h, read) ==
  [total |-> read["total"], active |-> read["active"],
   inactive |-> IF h = "getMemberStats" THEN read["total"] - read["active"]
                ELSE read["inactive"]]

\* A statistics request starts: its queries are issued.
StartStats(r) ==
  /\ reqs[r].pc = "idle"
  /\ \E h \in StatsHandlers :
       reqs' = [reqs EXCEPT ![r] = [IdleReq EXCEPT !.pc = "stats", !.handler = h]]
  /\ UNCHANGED <<db, fkMode>>

\* The database answers one of the pending counts.
Count(r) ==
  LET rq == reqs[r] IN
  /\ rq.pc = "stats"
  /\ \E q \in StatsQueries(rq.handler) \ DOMAIN rq.read :
       reqs' = [reqs EXCEPT ![r].read = (q :> memberCount(db, q)) @@ rq.read]
  /\ UNCHANGED <<db, fkMode>>

\* All counts are in: the handler builds the statistics and responds.
StatsRespond(r) ==
  LET rq == reqs[r] IN
  /\ rq.pc = "stats"
  /\ DOMAIN rq.read = StatsQueries(rq.handler)
  /\ reqs' = [reqs EXCEPT ![r] =
                [Respond(rq, 200) EXCEPT !.stats = statsResult(rq.handler, rq.read)]]
  /\ UNCHANGED <<db, fkMode>>

\* The writes that run beside the statistics: a member is created,
\* deactivated or deleted.
StatsWrites ==
  [router : {"members"}, method : {"POST"}, path : {<<>>}, auth : {NoAuth},
   body : {[name |-> "n3"]}, query : {NoBody}]
    \cup [router : {"members"}, method : {"PUT"}, path : {<<IdSeg(i)>> : i \in Ids},
          auth : {NoAuth}, body : {[isActive |-> FALSE]}, query : {NoBody}]
    \cup [router : {"members"}, method : {"DELETE"}, path : {<<IdSeg(i)>> : i \in Ids},
          auth : {NoAuth}, body : {NoBody}, query : {NoBody}]

InitStats ==
  /\ db \in ListSeeds
  /\ reqs = [r \in ReqIds |-> IdleReq]
  /\ fkMode \in {"restrict", "cascade"}

NextStats ==
  \/ StartStats(1)
  \/ Count(1)
  \/ StatsRespond(1)
  \/ NewRequest(2, StatsWrites)
  \/ Handle(2)

SpecStats == InitStats /\ [][NextStats]_vars

(***************************************************************************)
(* SpecAge: MemberService.getAgeGroupStats over members with ages.         *)
(***************************************************************************)
Null == [t |-> "null"]
\* A member row with its age column (an integer or null).
MemberWithAge(active, age) == MemberRow("n1", NULL, active) @@ [age |-> age]

\* The chain with age < 65 as its fifth test.
ageGroupOf_Below65(age) ==
  IF age <= 17 THEN "0-17"
  ELSE IF age <= 25 THEN "18-25"
  ELSE IF age <= 35 THEN "26-35"
  ELSE IF age <= 50 THEN "36-50"
  ELSE IF age < 65 THEN "51-65"
  ELSE "65+"

\* The if / else-if chain of members.forEach.
ageGroupOf(age) ==
  IF age <= 17 THEN "0-17"
  ELSE IF age <= 25 THEN "18-25"
  ELSE IF age <= 35 THEN "26-35"
  ELSE IF age <= 50 THEN "36-50"
  ELSE IF age <= 65 THEN "51-65"
  ELSE "65+"

\* The keys of the ageGroups object, in insertion order (Object.entries).
ageGroups == <<"0-17", "18-25", "26-35", "36-50", "51-65", "65+">>

getAgeGroupStats(d) ==
  LET members == {i \in Ids : /\ d.members[i].exists /\ d.members[i].isActive
                              /\ d.members[i].age # Null}
  IN  [k \in 1..Len(ageGroups) |->
         [ageGroup |-> ageGroups[k],
          count |-> Cardinality({i \in members :
                                   ageGroupOf(d.members[i].age.n) = ageGroups[k]})]]

\* The statistics are asked for and answered.
AgeStats(r) ==
  /\ reqs[r].pc = "idle"
  /\ reqs' = [reqs EXCEPT ![r] =
                [Respond(IdleReq, 200) EXCEPT !.handler = "getAgeGroupStats",
                                              !.ageStats = getAgeGroupStats(db)]]
  /\ UNCHANGED <<db, fkMode>>

\* The ages at and next to every bucket boundary.
Ages == {0, 17, 18, 25, 26, 35, 36, 50, 51, 65, 66, 90}
AgeSeeds ==
  { [EmptyDB EXCEPT !.members = m] :
      m \in [Ids -> {NoRow} \cup { MemberWithAge(a, g) :
                                     a \in BOOLEAN, g \in {Null} \cup {Num(n) : n \in Ages} }] }

InitAge ==
  /\ db \in AgeSeeds
  /\ reqs = [r \in ReqIds |-> IdleReq]
  /\ fkMode = "restrict"

NextAge == AgeStats(1)

SpecAge == InitAge /\ [][NextAge]_vars

(***************************************************************************)
(* SpecCStats: ContributionController.getContributionStats over            *)
(* contributions with dates.  A date is its year, month (0..11, as         *)
(* getMonth gives it) and day; the server's time zone is UTC.              *)
(***************************************************************************)
Date(y, m, d) == [year |-> y, month |-> m, day |-> d]
DateNum(date) == (date.year * 12 + date.month) * 31 + date.day
ContributionOn(amount, date) == ContributionRow(amount, 0, TRUE) @@ [date |-> date]

\* new Date(string): the date strings a client sends, with the date each
\* denotes; any other string gives an Invalid Date.
DateLiterals == ("2023-12-01" :> Date(2023, 11, 1)) @@ ("2024-03-31" :> Date(2024, 2, 31))
InvalidDate == [year |-> 0, month |-> 0, day |-> 0]
newDate(s) == IF s \in DOMAIN DateLiterals THEN DateLiterals[s] ELSE InvalidDate

\* where.date = {gte, lte}, each set when the query gives it.
statsWhere(query) ==
  [gte |-> IF Has(query, "dateFrom") THEN <<newDate(query["dateFrom"])>> ELSE <<>>,
   lte |-> IF Has(query, "dateTo") THEN <<newDate(query["dateTo"])>> ELSE <<>>]
statsWhereInvalid(where) ==
  \/ where.gte = <<InvalidDate>>
  \/ where.lte = <<InvalidDate>>
statsMatching(d, where) ==
  {i \in Ids : /\ d.contributions[i].exists
               /\ where.gte # <<>> => DateNum(where.gte[1]) <= DateNum(d.contributions[i].date)
               /\ where.lte # <<>> => DateNum(d.contributions[i].date) <= DateNum(where.lte[1])}

RECURSIVE SumAmounts(_, _)
SumAmounts(d, S) ==
  IF S = {} THEN 0
  ELSE LET i == CHOOSE j \in S : TRUE
       IN  d.contributions[i].amount + SumAmounts(d, S \ {i})

\* a / b for a count b > 0, kept exact: quotient, remainder and divisor.
Quot(a, b) == [q |-> a \div b, r |-> a % b, d |-> b]

\* Quarters of four months.
periodKey_Thirds(date, groupBy) ==
  CASE groupBy = "month" -> <<date.year, "-", date.month + 1>>
    [] groupBy = "quarter" -> <<date.year, "-Q", (date.month \div 4) + 1>>
    [] groupBy = "year" -> <<date.year>>
    [] OTHER -> <<date.year, "-", date.month + 1, "-", date.day>>

\* The switch on groupBy: the key's parts, in the order the template
\* string joins them.
periodKey(date, groupBy) ==
  CASE groupBy = "month" -> <<date.year, "-", date.month + 1>>
    [] groupBy = "quarter" -> <<date.year, "-Q", (date.month \div 3) + 1>>
    [] groupBy = "year" -> <<date.year>>
    [] OTHER -> <<date.year, "-", date.month + 1, "-", date.day>>

\* findMany({where, orderBy: {date: 'asc'}}): the ids in date order.
RECURSIVE ByDate(_, _)
ByDate(d, S) ==
  IF S = {} THEN <<>>
  ELSE LET h == CHOOSE i \in S : \A j \in S :
                  \/ DateNum(d.contributions[i].date) < DateNum(d.contributions[j].date)
                  \/ /\ DateNum(d.contributions[i].date) = DateNum(d.contributions[j].date)
                     /\ i <= j
       IN  <<h>> \o ByDate(d, S \ {h})

\* contributions.forEach: groupedStats after the first k contributions, as
\* the sequence of its entries in insertion order.
RECURSIVE groupedStats(_, _, _, _)
groupedStats(d, contributions, groupBy, k) ==
  IF k = 0 THEN <<>>
  ELSE LET before == groupedStats(d, contributions, groupBy, k - 1)
           contrib == d.contributions[contributions[k]]
           key == periodKey(contrib.date, groupBy)
       IN  IF \E n \in 1..Len(before) : before[n].period = key
           THEN [n \in 1..Len(before) |->
                   IF before[n].period = key
                   THEN [before[n] EXCEPT !.amount = @ + contrib.amount, !.count = @ + 1]
                   ELSE before[n]]
           ELSE Append(before, [period |-> key, amount |-> contrib.amount, count |-> 1])

getPeriodicStats(d, where, groupBy) ==
  LET contributions == ByDate(d, statsMatching(d, where))
      grouped == groupedStats(d, contributions, groupBy, Len(contributions))
  IN  [n \in 1..Len(grouped) |->
         [period |-> grouped[n].period, totalAmount |-> grouped[n].amount,
          count |-> grouped[n].count,
          averageAmount |-> Quot(grouped[n].amount, grouped[n].count)]]

\* prisma.contribution.aggregate and the summary built from it
\* (_sum.amount || 0, _avg.amount || 0).
statsSummary(d, where) ==
  LET M == statsMatching(d, where) IN
  [totalAmount |-> SumAmounts(d, M), totalCount |-> Cardinality(M),
   averageAmount |-> IF M = {} THEN Quot(0, 1) ELSE Quot(SumAmounts(d, M), Cardinality(M))]

NoCStats ==
  [summary |-> [totalAmount |-> 0, totalCount |-> 0, averageAmount |-> Quot(0, 1)],
   trends |-> <<>>]
getContributionStats(d, rq) ==
  LET groupBy == Get(rq.query, "groupBy", "month")
      where == statsWhere(rq.query)
  IN  IF statsWhereInvalid(where)
      THEN [status |-> errorHandler(PrismaValidationError), data |-> NoCStats]
      ELSE [status |-> 200,
            data |-> [summary |-> statsSummary(d, where),
                      trends |-> getPeriodicStats(d, where, groupBy)]]

\* GET /contributions/stats, which is mounted before authenticate.
ContributionStats(r) ==
  LET rq == reqs[r] IN
  /\ OnLayer(rq) /\ AtLayer(rq).kind = "route"
  /\ AtLayer(rq).handler = "getContributionStats"
  /\ LET res == getContributionStats(db, rq) IN
       reqs' = [reqs EXCEPT ![r] =
                  [Respond(rq, res.status) EXCEPT !.handler = "getContributionStats",
                                                  !.cstats = res.data]]
  /\ UNCHANGED <<db, fkMode>>

CStatsQueries ==
  { Field("groupBy", g # "-", g) @@ Field("dateFrom", f # "-", f) @@ Field("dateTo", t # "-", t) :
      g \in {"-", "month", "quarter", "year", "day"},
      f \in {"-", "2023-12-01", "abc"}, t \in {"-", "2024-03-31"} }
CStatsRequests ==
  [router : {"contributions"}, method : {"GET"}, path : {<<Lit("stats")>>},
   auth : {NoAuth}, body : {NoBody}, query : CStatsQueries]

\* Dates in neighbouring months of one quarter, neighbouring quarters and
\* neighbouring years.
CStatsDates ==
  {Date(2023, 10, 15), Date(2023, 11, 15), Date(2024, 0, 15), Date(2024, 2, 15),
   Date(2024, 3, 15), Date(2024, 3, 16)}
CStatsSeeds ==
  { [EmptyDB EXCEPT !.contributions = c] :
      c \in [Ids -> {NoRow} \cup { ContributionOn(a, dt) : a \in {5, 7}, dt \in CStatsDates }] }

InitCStats ==
  /\ db \in CStatsSeeds
  /\ reqs = [r \in ReqIds |-> IdleReq]
  /\ fkMode = "restrict"

NextCStats ==
  \/ NewRequest(1, CStatsRequests)
  \/ ContributionStats(1)

SpecCStats == InitCStats /\ [][NextCStats]_vars

(***************************************************************************)
(* SpecTrip: one member written through POST, PUT or DELETE /members,      *)
(* then one GET /members/:id, with the data of each response.              *)
(***************************************************************************)
NoData == [id |-> 0, row |-> NoRow]

\* The member a handler of the member router sends as data: the row the
\* create or update returns, the row findUnique finds; a failure and a
\* delete send none.
memberData(h, d, after, rq, status) ==
  IF status \notin {200, 201} THEN NoData
  ELSE CASE h = "createMember" ->
              [id |-> FreeId(d.members), row |-> after.members[FreeId(d.members)]]
         [] h = "updateMember" -> [id |-> P1(rq), row |-> after.members[P1(rq)]]
         [] h = "getMemberById" -> [id |-> P1(rq), row |-> d.members[P1(rq)]]
         [] OTHER -> NoData

\* A route of the member router, run to its response.
HandleMember(r) ==
  LET rq == reqs[r]
      h == AtLayer(rq).handler
  IN  /\ OnLayer(rq) /\ AtLayer(rq).kind = "route" /\ rq.router = "members"
      /\ LET res == RunHandler(h, db, rq, fkMode) IN
           /\ res.status = 201 => HasRoom(db, h)
           /\ db' = res.db
           /\ reqs' = [reqs EXCEPT ![r] =
                         [Respond(rq, res.status) EXCEPT
                            !.handler = h,
                            !.data = memberData(h, db, res.db, rq, res.status)]]
      /\ UNCHANGED fkMode

TripWrites ==
  { [router |-> "members", method |-> q.method, path |-> q.path, auth |-> NoAuth,
     body |-> q.body, query |-> NoBody] :
      q \in ([method : {"POST"}, path : {<<>>}, body : MemberBodies]
             \cup [method : {"PUT"}, path : {<<IdSeg(i)>> : i \in Ids}, body : MemberBodies]
             \cup [method : {"DELETE"}, path : {<<IdSeg(i)>> : i \in Ids}, body : {NoBody}]) }
TripReads ==
  [router : {"members"}, method : {"GET"}, path : {<<IdSeg(i)>> : i \in Ids},
   auth : {NoAuth}, body : {NoBody}, query : {NoBody}]

\* The read is sent once the write is answered.
TripRead(r) ==
  /\ reqs[1].pc = "done"
  /\ NewRequest(r, TripReads)

InitTrip ==
  /\ db \in {d \in CrudSeeds : SeedIntegrity(d)}
  /\ reqs = [r \in ReqIds |-> IdleReq]
  /\ fkMode \in {"restrict", "cascade"}

NextTrip ==
  \/ NewRequest(1, TripWrites)
  \/ HandleMember(1)
  \/ TripRead(2)
  \/ HandleMember(2)

SpecTrip == InitTrip /\ [][NextTrip]_vars

(***************************************************************************)
(* SpecFlow: NewAuthController.forgotPassword, one step per await, with    *)
(* every call of res.json and every error forwarded with next(error)       *)
(* recorded.  The update of the account may be rejected by the database    *)
(* (the row was removed by another client of the database, the connection  *)
(* was lost).                                                              *)
(***************************************************************************)
\* String.prototype.toLowerCase on the addresses the clients send.
toLowerCase(s) == IF s = "E1" THEN "e1" ELSE IF s = "N1" THEN "n1" ELSE s

forgotPasswordValidationFails(rq) ==
  ~(Has(rq.body, "email") /\ rq.body["email"] # NULL /\ isEmail(toLowerCase(rq.body["email"])))

\* prisma.user.findUnique({where: {email: email.toLowerCase()}}): the id
\* of the account, 0 when there is none.
forgotPasswordFind(d, rq) ==
  IF \E u \in UserIds : d.users[u].exists /\ d.users[u].email = toLowerCase(rq.body["email"])
  THEN CHOOSE u \in UserIds : d.users[u].exists /\ d.users[u].email = toLowerCase(rq.body["email"])
  ELSE 0

\* A message that tells whether the account exists.
forgotPasswordMessage_Reveals(user) ==
  IF user = 0 THEN "No account with this email"
  ELSE "If the email exists, a password reset link has been sent"

\* The message of forgotPassword's res.json, sent whatever the lookup found.
forgotPasswordMessage(user) == "If the email exists, a password reset link has been sent"

\* The body forgotPassword sends once the validation has passed.
forgotPasswordBody(d, rq) ==
  [status |-> 200, success |-> TRUE,
   message |-> forgotPasswordMessage(forgotPasswordFind(d, rq))]

\* res.json or res.status(..).json is called: the first call answers the
\* request, a later one finds the response already sent.
Send(rq, status) ==
  [rq EXCEPT !.status = IF rq.flow.sends = 0 THEN status ELSE @,
             !.flow.sends = @ + 1]
\* next(error): the error handler answers with the status of the error.
NextError(rq, err) ==
  [Send(rq, errorHandler(err)) EXCEPT !.flow.forwardedAfterSend = (rq.flow.sends > 0)]

\* forgotPassword to its await of prisma.user.update: validation, the
\* lookup, the response, and the test of user.
ForgotFind(r) ==
  LET rq == reqs[r] IN
  /\ OnLayer(rq) /\ AtLayer(rq).kind = "route" /\ AtLayer(rq).handler = "forgotPassword"
  /\ rq.loc = NoRow
  /\ reqs' = [reqs EXCEPT ![r] =
       IF forgotPasswordValidationFails(rq)
       THEN [NextError(rq, ApiError(400)) EXCEPT !.pc = "done", !.handler = "forgotPassword",
                                                 !.sent = errorBody(ApiError(400))]
       ELSE LET user == forgotPasswordFind(db, rq) IN
            IF user = 0
            THEN [Send(rq, 200) EXCEPT !.pc = "done", !.handler = "forgotPassword",
                                       !.sent = forgotPasswordBody(db, rq)]
            ELSE [Send(rq, 200) EXCEPT !.handler = "forgotPassword",
                                       !.sent = forgotPasswordBody(db, rq),
                                       !.loc = [exists |-> TRUE, id |-> user]]]
  /\ UNCHANGED <<db, fkMode>>

\* crypto.randomBytes(32): a token no other request has drawn.
randomToken(r) == CASE r = 1 -> "t1" [] r = 2 -> "t2" [] OTHER -> "t3"
\* The account columns of the password reset.  passwordResetExpires is
\* kept relative to the clock: "future" until an hour has passed, "past"
\* afterwards.
ResetColumns(password, token, expires) ==
  [password |-> password, passwordResetToken |-> token, passwordResetExpires |-> expires]
\* data: {passwordResetToken, passwordResetExpires: now + 1 hour}
forgotPasswordUpdate(row, r) ==
  [row EXCEPT !.passwordResetToken = randomToken(r), !.passwordResetExpires = "future"]

\* forgotPassword from its await of prisma.user.update: the reset token is
\* stored, or the update rejects and the catch block calls next(error).
ForgotUpdate(r) ==
  LET rq == reqs[r] IN
  /\ OnLayer(rq) /\ AtLayer(rq).kind = "route" /\ AtLayer(rq).handler = "forgotPassword"
  /\ rq.loc # NoRow
  /\ \E rejects \in BOOLEAN :
       IF rejects
       THEN /\ reqs' = [reqs EXCEPT ![r] =
                          [NextError(rq, PrismaKnownError("P2025")) EXCEPT
                             !.pc = "done", !.loc = NoRow]]
            /\ UNCHANGED db
       ELSE /\ reqs' = [reqs EXCEPT ![r] = [rq EXCEPT !.pc = "done", !.loc = NoRow,
                                                      !.flow.wroteAfterSend = TRUE]]
            /\ db' = [db EXCEPT !.users[rq.loc.id] = forgotPasswordUpdate(@, r)]
  /\ UNCHANGED fkMode

ForgotRequests ==
  { [router |-> "auth", method |-> "POST", path |-> <<Lit("forgot-password")>>,
     auth |-> NoAuth, body |-> Field("email", e # "-", e), query |-> NoBody] :
      e \in {"-", "e1", "E1", "e2", "e3", "bad"} }

\* Any set of accounts, each with its own address, active or not, without
\* a reset token.
FlowSeeds ==
  { [EmptyDB EXCEPT !.users =
       [u \in UserIds |->
          IF u \in have
          THEN UserRow(EmailOf(u), u \in active, <<>>) @@ ResetColumns("h0", NULL, NULL)
          ELSE NoRow]] :
      have \in SUBSET UserIds, active \in SUBSET UserIds }

InitFlow ==
  /\ db \in FlowSeeds
  /\ reqs = [r \in ReqIds |-> IdleReq]
  /\ fkMode = "restrict"

NextFlow ==
  \E r \in ReqIds :
    \/ NewRequest(r, ForgotRequests)
    \/ ForgotFind(r)
    \/ ForgotUpdate(r)

SpecFlow == InitFlow /\ [][NextFlow]_vars

(***************************************************************************)
(* SpecDel: DELETE /ministries/:id, one step per await, while a second     *)
(* client adds a member to the ministry or creates an event for it.        *)
(***************************************************************************)
\* deleteMinistry to its await of prisma.ministry.delete: the lookup with
\* its counts, and the two guards.
DeleteMinistryFind(r) ==
  LET rq == reqs[r] IN
  /\ AtHandler(rq, "deleteMinistry")
  /\ reqs' = [reqs EXCEPT ![r] =
                StepTo(rq, "deleteMinistry", deleteMinistryFind(db, rq), "write")]
  /\ UNCHANGED <<db, fkMode>>

\* prisma.ministry.delete and the response.
DeleteMinistryWrite(r) ==
  LET rq == reqs[r]
      res == deleteMinistryWrite(db, rq, fkMode)
  IN  /\ rq.pc = "write" /\ rq.handler = "deleteMinistry"
      /\ db' = res.db
      /\ reqs' = [reqs EXCEPT ![r] = Respond(rq, res.status)]
      /\ UNCHANGED fkMode

DelRequests ==
  { [router |-> "ministries", method |-> "DELETE", path |-> <<IdSeg(1)>>,
     auth |-> AdminToken, body |-> NoBody, query |-> NoBody] }
DelRivals ==
  { [router |-> "ministries", method |-> "POST", path |-> <<IdSeg(1), Lit("members")>>,
     auth |-> AdminToken, body |-> [memberId |-> m], query |-> NoBody] : m \in Ids }
    \cup
  { [router |-> "events", method |-> "POST", path |-> <<>>, auth |-> AdminToken,
     body |-> [title |-> "n3", organizerId |-> 1] @@ Field("ministryId", k # 0, k),
     query |-> NoBody] : k \in {0, 1} }

\* Ministry 1 with any membership of member 2 and any link of event 1.
DelSeeds ==
  { [SeedDB EXCEPT
       !.users = [u \in UserIds |-> UserRow(EmailOf(u), TRUE, <<"SUPER_ADMIN">>)],
       !.members[2] = MemberRow("n2", "e2", TRUE),
       !.ministryMember[<<1, 2>>] = mm,
       !.events[1] = EventRow("n1", 1, k, 0, a)] :
      mm \in {NoRow, MembershipRow("MEMBER", TRUE), MembershipRow("MEMBER", FALSE)},
      k \in {0, 1}, a \in BOOLEAN }

InitDel ==
  /\ db \in DelSeeds
  /\ reqs = [r \in ReqIds |-> IdleReq]
  /\ fkMode \in {"restrict", "cascade"}

NextDel ==
  \/ NewRequest(1, DelRequests)
  \/ NewRequest(2, DelRivals)
  \/ \E r \in {1, 2} : Authenticate(r) \/ AuthenticateUpdate(r) \/ Authorize(r)
  \/ DeleteMinistryFind(1)
  \/ DeleteMinistryWrite(1)
  \/ Handle(2)

SpecDel == InitDel /\ [][NextDel]_vars

(***************************************************************************)
(* SpecAnn: the announcement routes mounted before authenticate.  An       *)
(* announcement has a publication period (publishDate, expiryDate, each a  *)
(* date or null) and a priority; now is the time of the request.           *)
(***************************************************************************)
Now == Date(2025, 0, 1)
AnnouncementOn(published, active, publishDate, expiryDate, priority) ==
  AnnouncementRow("n1", 1, published, active)
    @@ [publishDate |-> publishDate, expiryDate |-> expiryDate, priority |-> priority]

\* {publishDate: {lte: now}} and {expiryDate: {gte: now}}: a null column
\* satisfies neither.
DateLte(date, now) == IF date = Null THEN FALSE ELSE DateNum(date) <= DateNum(now)
DateGte(date, now) == IF date = Null THEN FALSE ELSE DateNum(date) >= DateNum(now)
\* OR: [{publishDate: null}, {publishDate: {lte: now}}] and
\* OR: [{expiryDate: null}, {expiryDate: {gte: now}}]
withinPeriod(row, now) ==
  /\ row.publishDate = Null \/ DateLte(row.publishDate, now)
  /\ row.expiryDate = Null \/ DateGte(row.expiryDate, now)

\* contains, mode insensitive, on the titles and the terms of the model.
containsInsensitive(text, term) ==
  toLowerCase(term) \in
    (CASE text = "n1" -> {"", "n", "1", "n1"} [] OTHER -> {""})
\* String.prototype.trim, and the length of the trimmed terms.
trim(s) == IF s = " n1 " THEN "n1" ELSE s
TermLength == ("n1" :> 2) @@ ("N1" :> 2) @@ ("n" :> 1) @@ ("zz" :> 2) @@ ("" :> 0)

\* A where clause on announcements; a condition that is not set is
\* Undefined.
annWhere(isPublished, isActive, period, priority, search) ==
  [isPublished |-> isPublished, isActive |-> isActive, period |-> period,
   priority |-> priority, search |-> search]
annMatches(row, where, now) ==
  /\ row.exists
  /\ where.isPublished # Undefined => row.isPublished = where.isPublished.b
  /\ where.isActive # Undefined => row.isActive = where.isActive.b
  /\ where.period => withinPeriod(row, now)
  /\ where.priority # Undefined => row.priority = where.priority.s
  /\ where.search # Undefined => containsInsensitive(row.title, where.search.s)

\* The priority enum in its declared order; createdAt is the order of ids.
PriorityRank(p) ==
  CASE p = "low" -> 1 [] p = "normal" -> 2 [] p = "high" -> 3 [] p = "urgent" -> 4
    [] OTHER -> 0
\* orderBy [{priority: 'desc'}, {createdAt: 'desc'}], or {createdAt: dir}.
annPrecedes(tbl, i, j, byPriority, dir) ==
  IF byPriority /\ tbl[i].priority # tbl[j].priority
  THEN PriorityRank(tbl[i].priority) > PriorityRank(tbl[j].priority)
  ELSE IF dir = "asc" THEN i < j ELSE i > j
RECURSIVE annSorted(_, _, _, _)
annSorted(tbl, S, byPriority, dir) ==
  IF S = {} THEN <<>>
  ELSE LET h == CHOOSE i \in S : \A j \in S \ {i} : annPrecedes(tbl, i, j, byPriority, dir)
       IN  <<h>> \o annSorted(tbl, S \ {h}, byPriority, dir)
\* prisma.announcement.findMany({where, skip, take, orderBy}): the ids.
annFindMany(d, where, skip, take, byPriority, dir, now) ==
  LET all == annSorted(d.announcements,
                       {i \in Ids : annMatches(d.announcements[i], where, now)},
                       byPriority, dir)
  IN  SubSeq(all, skip.n + 1, Min(skip.n + take.n, Len(all)))

\* The where clause getAnnouncements builds from the query.
getAnnouncementsWhere(query) ==
  LET isActive == QueryOr(query, "isActive", Undefined)
      publishedOnly == QueryOr(query, "publishedOnly", Str("true"))
      only == publishedOnly = Str("true")
  IN  annWhere(IF only THEN Bool(TRUE) ELSE Undefined,
               IF only THEN Bool(TRUE)
               ELSE IF isActive # Undefined THEN Bool(isActive = Str("true"))
               ELSE Undefined,
               only,
               IF Has(query, "priority") /\ query["priority"] # ""
               THEN Str(query["priority"]) ELSE Undefined,
               IF Has(query, "search") /\ query["search"] # ""
               THEN Str(query["search"]) ELSE Undefined)

getAnnouncements(d, rq, now) ==
  LET p == listPaging(rq.query) IN
  IF findManyRejects(p.skip, p.take) THEN ListFail(PrismaValidationError)
  ELSE ListOk(annFindMany(d, getAnnouncementsWhere(rq.query), p.skip, p.take, FALSE,
                          Get(rq.query, "sortOrder", "desc"), now),
              NoPagination)

\* getAnnouncementById, with the row it sends.
getAnnouncementByIdData(d, rq) ==
  LET id == ParamId(rq.path[Len(rq.path)]) IN
  IF ~Exists(d.announcements, id) THEN ListFail(ApiError(404))
  ELSE ListOk(<<id>>, NoPagination)

\* The where clause of getRecentAnnouncements and getAnnouncementsByPriority.
publishedWhere(priority) == annWhere(Bool(TRUE), Bool(TRUE), TRUE, priority, Undefined)

getRecentAnnouncements(d, rq, now) ==
  LET take == parseInt(QueryOr(rq.query, "limit", Num(5))) IN
  IF findManyRejects(Num(0), take) THEN ListFail(PrismaValidationError)
  ELSE ListOk(annFindMany(d, publishedWhere(Undefined), Num(0), take, TRUE, "desc", now),
              NoPagination)

searchAnnouncements(d, rq, now) ==
  IF ~Has(rq.query, "q") \/ rq.query["q"] = "" \/ TermLength[trim(rq.query["q"])] < 2
  THEN ListFail(ApiError(400))
  ELSE LET take == parseInt(QueryOr(rq.query, "limit", Num(10))) IN
       IF findManyRejects(Num(0), take) THEN ListFail(PrismaValidationError)
       ELSE ListOk(annFindMany(d, annWhere(Bool(TRUE), Bool(TRUE), TRUE, Undefined,
                                           Str(trim(rq.query["q"]))),
                               Num(0), take, TRUE, "desc", now),
                   NoPagination)

getAnnouncementsByPriority(d, rq, now) ==
  LET priority == rq.path[2].s IN
  IF priority \notin {"low", "normal", "high", "urgent"} THEN ListFail(ApiError(400))
  ELSE ListOk(annSorted(d.announcements,
                        {i \in Ids : annMatches(d.announcements[i],
                                                publishedWhere(Str(priority)), now)},
                        FALSE, "desc"),
              NoPagination)

PublicHandlers ==
  {"getAnnouncements", "getAnnouncementById", "getRecentAnnouncements",
   "searchAnnouncements", "getAnnouncementsByPriority"}
RunPublic(h, d, rq, now) ==
  CASE h = "getAnnouncements" -> getAnnouncements(d, rq, now)
    [] h = "getAnnouncementById" -> getAnnouncementByIdData(d, rq)
    [] h = "getRecentAnnouncements" -> getRecentAnnouncements(d, rq, now)
    [] h = "searchAnnouncements" -> searchAnnouncements(d, rq, now)
    [] h = "getAnnouncementsByPriority" -> getAnnouncementsByPriority(d, rq, now)

\* A route before authenticate: optionalAuth where the route names it,
\* then the handler, run to its response.
ServeAnnouncements(r) ==
  LET rq == reqs[r]
      h == AtLayer(rq).handler
  IN  /\ OnLayer(rq) /\ AtLayer(rq).kind = "route" /\ rq.router = "announcements"
      /\ h \in PublicHandlers
      /\ LET res == RunPublic(h, db, rq, Now) IN
           reqs' = [reqs EXCEPT ![r] =
                      [Respond(rq, res.status) EXCEPT
                         !.handler = h, !.json = res,
                         !.user = IF \E k \in 1..Len(AtLayer(rq).pre) :
                                       AtLayer(rq).pre[k] = "optionalAuth"
                                  THEN optionalAuthUser(db, rq.auth) ELSE NoUser]]
      /\ UNCHANGED <<db, fkMode>>

PublicQueries ==
  { Field("publishedOnly", p # "-", p) @@ Field("isActive", a # "-", a)
      @@ Field("limit", l # "-", l) :
      p \in {"-", "true", "false"}, a \in {"-", "true", "false"}, l \in {"-", "1", "abc"} }
PublicRequests ==
  [router : {"announcements"}, method : {"GET"}, auth : {NoAuth, Bearer("bad", "id", 1)},
   body : {NoBody}, path : {<<Lit("public")>>}, query : PublicQueries]
    \cup
  [router : {"announcements"}, method : {"GET"}, auth : {NoAuth}, body : {NoBody},
   path : {<<Lit("public"), IdSeg(i)>> : i \in Ids}, query : {NoBody}]
    \cup
  [router : {"announcements"}, method : {"GET"}, auth : {NoAuth}, body : {NoBody},
   path : {<<Lit("recent")>>}, query : {Field("limit", l # "-", l) : l \in {"-", "1"}}]
    \cup
  [router : {"announcements"}, method : {"GET"}, auth : {NoAuth}, body : {NoBody},
   path : {<<Lit("search")>>},
   query : {Field("q", q # "-", q) : q \in {"-", "n1", "N1", " n1 ", "n", "zz"}}]
    \cup
  [router : {"announcements"}, method : {"GET"}, auth : {NoAuth}, body : {NoBody},
   path : {<<Lit("priority"), Lit(p)>> : p \in {"normal", "urgent", "bad"}},
   query : {NoBody}]

\* A visible announcement, a draft, a deleted one, a scheduled one, an
\* expired one, and an urgent one inside its period.
AnnKinds ==
  { AnnouncementOn(TRUE, TRUE, Null, Null, "normal"),
    AnnouncementOn(FALSE, TRUE, Null, Null, "normal"),
    AnnouncementOn(TRUE, FALSE, Null, Null, "normal"),
    AnnouncementOn(TRUE, TRUE, Date(2026, 0, 1), Null, "normal"),
    AnnouncementOn(TRUE, TRUE, Null, Date(2024, 0, 1), "urgent"),
    AnnouncementOn(TRUE, TRUE, Date(2024, 0, 1), Date(2026, 0, 1), "urgent") }
AnnSeeds ==
  { [EmptyDB EXCEPT !.members[1] = MemberRow("n1", "e1", TRUE), !.announcements = a] :
      a \in [Ids -> {NoRow} \cup AnnKinds] }

InitAnn ==
  /\ db \in AnnSeeds
  /\ reqs = [r \in ReqIds |-> IdleReq]
  /\ fkMode = "restrict"

NextAnn ==
  \/ NewRequest(1, PublicRequests)
  \/ ServeAnnouncements(1)

SpecAnn == InitAnn /\ [][NextAnn]_vars

(***************************************************************************)
(* SpecMe: GET /auth/me, which the auth router registers after             *)
(* router.use(authenticate), with optionalAuth in front of its handler.    *)
(***************************************************************************)
\* optionalAuth leaves req.user as it is unless the token names an active
\* account.
optionalAuth(d, rq) ==
  IF optionalAuthUser(d, rq.auth) # NoUser THEN optionalAuthUser(d, rq.auth) ELSE rq.user

\* getCurrentUser: data null without req.user, else the account findUnique
\* finds (null when it is gone).
getCurrentUser(d, user) ==
  IF user = NoUser THEN NoData
  ELSE IF Exists(d.users, user.id) THEN [id |-> user.id, row |-> d.users[user.id]]
  ELSE NoData

\* The route GET /me: optionalAuth, then getCurrentUser's response.
GetCurrentUser(r) ==
  LET rq == reqs[r] IN
  /\ AtHandler(rq, "getCurrentUser")
  /\ LET user == optionalAuth(db, rq) IN
       reqs' = [reqs EXCEPT ![r] =
                  [Respond(rq, 200) EXCEPT !.handler = "getCurrentUser", !.user = user,
                                           !.data = getCurrentUser(db, user),
                                           !.trail = Append(@, "optionalAuth")]]
  /\ UNCHANGED <<db, fkMode>>

MeRequests ==
  [router : {"auth"}, method : {"GET"}, path : {<<Lit("me")>>}, auth : Tokens,
   body : {NoBody}, query : {NoBody}]

InitMe ==
  /\ \E us \in SeedUsers : db = [EmptyDB EXCEPT !.users = us]
  /\ reqs = [r \in ReqIds |-> IdleReq]
  /\ fkMode = "restrict"

NextMe ==
  \/ NewRequest(1, MeRequests)
  \/ Authenticate(1)
  \/ AuthenticateUpdate(1)
  \/ GetCurrentUser(1)

SpecMe == InitMe /\ [][NextMe]_vars

(***************************************************************************)
(* SpecExport: GET /contributions/export.  The contribution router         *)
(* registers GET /:id before its first authorize and GET /export after it. *)
(***************************************************************************)
\* The where clause of exportContributions: memberId and the date range.
exportMatching(d, query) ==
  {i \in statsMatching(d, statsWhere(query)) :
     (Has(query, "memberId") /\ query["memberId"] # 0) =>
       d.contributions[i].memberId = query["memberId"]}

\* One row of exportData.
exportRow(d, contrib) ==
  [Date |-> contrib.date, Amount |-> contrib.amount,
   MemberName |-> IF contrib.isAnonymous THEN "Anonymous"
                  ELSE IF contrib.memberId # 0 /\ Exists(d.members, contrib.memberId)
                       THEN d.members[contrib.memberId].name
                  ELSE "Unknown",
   IsAnonymous |-> IF contrib.isAnonymous THEN "Yes" ELSE "No"]

\* exportContributions: the rows in date order, newest first, as CSV or
\* as the JSON the handler sends for excel.
exportContributions(d, rq) ==
  LET format == Get(rq.query, "format", "csv") IN
  IF format \notin {"csv", "excel"} THEN [status |-> errorHandler(ApiError(400)),
                                          format |-> "", data |-> <<>>]
  ELSE IF statsWhereInvalid(statsWhere(rq.query))
       THEN [status |-> errorHandler(PrismaValidationError), format |-> "", data |-> <<>>]
  ELSE LET asc == ByDate(d, exportMatching(d, rq.query))
       IN  [status |-> 200, format |-> format,
            data |-> [n \in 1..Len(asc) |->
                        exportRow(d, d.contributions[asc[Len(asc) + 1 - n]])]]

ExportRoles == {"ADMIN", "SUPER_ADMIN", "FINANCE", "TREASURER"}
ExportRequests ==
  [router : {"contributions"}, method : {"GET"}, path : {<<Lit("export")>>},
   auth : {NoAuth, Bearer("bad", "id", 1), Bearer("ok", "id", 1)}, body : {NoBody},
   query : { Field("format", f # "-", f) @@ Field("dateFrom", t # "-", t) :
               f \in {"-", "csv", "excel", "pdf"}, t \in {"-", "2023-12-01"} }]

\* User 1 with any first role; contributions of member 1, on two dates.
ExportSeeds ==
  { [SeedDB EXCEPT
       !.users = [u \in UserIds |->
                    UserRow(EmailOf(u), a, IF u = 1 THEN rs ELSE <<"SUPER_ADMIN">>)],
       !.contributions = [i \in Ids |->
          IF i \in have
          THEN ContributionRow(5, 1, i \in anon) @@ [date |-> Date(2023 + (i % 2), 0, 15)]
          ELSE NoRow]] :
      a \in BOOLEAN,
      rs \in {<<>>, <<"MEMBER">>, <<"MINISTRY_LEADER">>} \cup {<<x>> : x \in ExportRoles},
      have \in SUBSET Ids, anon \in SUBSET Ids }

InitExport ==
  /\ db \in ExportSeeds
  /\ reqs = [r \in ReqIds |-> IdleReq]
  /\ fkMode = "restrict"

NextExport ==
  \/ NewRequest(1, ExportRequests)
  \/ Authenticate(1)
  \/ AuthenticateUpdate(1)
  \/ Handle(1)

SpecExport == InitExport /\ [][NextExport]_vars

(***************************************************************************)
(* SpecReset: forgot-password and reset-password, one step per await,      *)
(* while the clock may pass the expiry of the outstanding tokens.          *)
(***************************************************************************)
\* routes: token notEmpty, newPassword isLength({min: 6}).
Passwords == {"secret1", "secret2"}
resetPasswordValidationFails(rq) ==
  \/ ~Has(rq.body, "token") \/ ~notEmpty(rq.body["token"])
  \/ ~Has(rq.body, "newPassword") \/ rq.body["newPassword"] \notin Passwords

\* prisma.user.findFirst({where: {passwordResetToken: token,
\* passwordResetExpires: {gt: new Date()}}}): the id, 0 when none.
resetPasswordFind(d, token) ==
  LET hit(u) == /\ d.users[u].exists /\ d.users[u].passwordResetToken = token
                /\ d.users[u].passwordResetExpires = "future"
  IN  IF \E u \in UserIds : hit(u) THEN CHOOSE u \in UserIds : hit(u) ELSE 0

\* bcrypt.hash(newPassword, 12)
bcryptHash(password) == IF password = "secret1" THEN "h1" ELSE "h2"

\* An update that leaves the token in place.
resetPasswordUpdate_KeepsToken(row, newPassword) ==
  [row EXCEPT !.password = bcryptHash(newPassword)]

\* data: {password, passwordResetToken: null, passwordResetExpires: null}
resetPasswordUpdate(row, newPassword) ==
  [row EXCEPT !.password = bcryptHash(newPassword), !.passwordResetToken = NULL,
              !.passwordResetExpires = NULL]

\* resetPassword to its await of bcrypt.hash: validation and the lookup.
ResetFind(r) ==
  LET rq == reqs[r] IN
  /\ AtHandler(rq, "resetPassword")
  /\ rq.loc = NoRow
  /\ reqs' = [reqs EXCEPT ![r] =
       IF resetPasswordValidationFails(rq)
       THEN [Respond(rq, errorHandler(ApiError(400))) EXCEPT !.handler = "resetPassword"]
       ELSE LET user == resetPasswordFind(db, rq.body["token"]) IN
            IF user = 0
            THEN [Respond(rq, errorHandler(ApiError(400))) EXCEPT !.handler = "resetPassword"]
            ELSE [rq EXCEPT !.handler = "resetPassword",
                            !.loc = [exists |-> TRUE, id |-> user]]]
  /\ UNCHANGED <<db, fkMode>>

\* resetPassword from its await of prisma.user.update, by the id of the
\* account it found, to the response.
ResetWrite(r) ==
  LET rq == reqs[r] IN
  /\ AtHandler(rq, "resetPassword")
  /\ rq.loc # NoRow
  /\ db' = [db EXCEPT !.users[rq.loc.id] = resetPasswordUpdate(@, rq.body["newPassword"])]
  /\ reqs' = [reqs EXCEPT ![r] = [Respond(rq, 200) EXCEPT !.loc = NoRow]]
  /\ UNCHANGED fkMode

\* An hour passes: the outstanding tokens are past their expiry.
HourPasses ==
  /\ \E u \in UserIds : db.users[u].exists /\ db.users[u].passwordResetExpires = "future"
  /\ db' = [db EXCEPT !.users = [u \in DOMAIN @ |->
              IF @[u].exists /\ @[u].passwordResetExpires = "future"
              THEN [@[u] EXCEPT !.passwordResetExpires = "past"] ELSE @[u]]]
  /\ UNCHANGED <<reqs, fkMode>>

ResetRequests ==
  { [router |-> "auth", method |-> "POST", path |-> <<Lit("reset-password")>>,
     auth |-> NoAuth, body |-> Field("token", t # "-", t) @@ [newPassword |-> p],
     query |-> NoBody] :
      t \in {"-", "", "t0", "t1", "t2"}, p \in Passwords \cup {"short"} }
    \cup
  { [router |-> "auth", method |-> "POST", path |-> <<Lit("forgot-password")>>,
     auth |-> NoAuth, body |-> [email |-> "e1"], query |-> NoBody] }

\* Account 1 with no token, or with the token "t0", current or expired.
ResetSeeds ==
  { [EmptyDB EXCEPT !.users =
       [u \in UserIds |->
          IF u = 1 THEN UserRow(EmailOf(1), TRUE, <<>>) @@ c
          ELSE UserRow(EmailOf(u), TRUE, <<>>) @@ ResetColumns("h0", NULL, NULL)]] :
      c \in {ResetColumns("h0", NULL, NULL), ResetColumns("h0", "t0", "future"),
             ResetColumns("h0", "t0", "past")} }

InitReset ==
  /\ db \in ResetSeeds
  /\ reqs = [r \in ReqIds |-> IdleReq]
  /\ fkMode = "restrict"

NextReset ==
  \/ \E r \in ReqIds :
       \/ NewRequest(r, ResetRequests)
       \/ ForgotFind(r)
       \/ ForgotUpdate(r)
       \/ ResetFind(r)
       \/ ResetWrite(r)
  \/ HourPasses

SpecReset == InitReset /\ [][NextReset]_vars

(***************************************************************************)
(* SpecRefresh: POST /auth/refresh-token, and a later request to a         *)
(* protected route that carries the refreshed token, or the token login    *)
(* and register sign for the same account.                                 *)
(***************************************************************************)
\* generateToken: jwt.sign({id, email, role}, JWT_SECRET).
generateToken(id) == Bearer("ok", "id", id)
\* refreshToken's jwt.sign({userId, email, role}, JWT_SECRET).
refreshTokenSign(id) == Bearer("ok", "userId", id)

\* refreshToken: the account of req.user when it is still active, and the
\* new token.
refreshToken(d, user) ==
  IF user = NoUser THEN [status |-> errorHandler(ApiError(401)), token |-> NoAuth]
  ELSE IF ~(Exists(d.users, user.id) /\ d.users[user.id].isActive)
       THEN [status |-> errorHandler(ApiError(404)), token |-> NoAuth]
  ELSE [status |-> 200, token |-> refreshTokenSign(user.id)]

RefreshToken(r) ==
  LET rq == reqs[r] IN
  /\ AtHandler(rq, "refreshToken")
  /\ LET res == refreshToken(db, rq.user) IN
       reqs' = [reqs EXCEPT ![r] =
                  [Respond(rq, res.status) EXCEPT !.handler = "refreshToken",
                                                  !.token = res.token]]
  /\ UNCHANGED <<db, fkMode>>

RefreshRequests ==
  [router : {"auth"}, method : {"POST"}, path : {<<Lit("refresh-token")>>},
   auth : {NoAuth, Bearer("bad", "id", 1)} \cup {generateToken(u) : u \in UserIds},
   body : {NoBody}, query : {NoBody}]

\* The client of request r sends its next request with the token it was
\* given: the refreshed one, or the one login signs for the account.
UseToken(r, next) ==
  /\ reqs[r].pc = "done" /\ reqs[r].handler = "refreshToken" /\ reqs[r].status = 200
  /\ reqs[next].pc = "idle"
  /\ \E tok \in {reqs[r].token, generateToken(reqs[r].user.id)}, i \in Ids :
       reqs' = [reqs EXCEPT ![next] =
                  StartReq("ministries", "GET", <<IdSeg(i)>>, tok, NoBody, NoBody, db)]
  /\ UNCHANGED <<db, fkMode>>

InitRefresh ==
  /\ \E us \in SeedUsers : db = [SeedDB EXCEPT !.users = us]
  /\ reqs = [r \in ReqIds |-> IdleReq]
  /\ fkMode = "restrict"

NextRefresh ==
  \/ NewRequest(1, RefreshRequests)
  \/ \E r \in {1, 2} : Authenticate(r) \/ AuthenticateUpdate(r)
  \/ RefreshToken(1)
  \/ UseToken(1, 2)
  \/ Handle(2)
  \/ \E u \in UserIds : DeactivateUser(u)

SpecRefresh == InitRefresh /\ [][NextRefresh]_vars

(***************************************************************************)
(* SpecReg: registerForEvent, cancelRegistration and updateEvent, the      *)
(* first two one step per await, by concurrent clients.  SpecRegSeq: the   *)
(* same requests, one after the other.  An event carries, besides the      *)
(* columns of EventRow, whether its registration deadline has passed       *)
(* (registrationRequired, registrationDeadline < now).                     *)
(***************************************************************************)
EventOn(maxAtt, active, closed) ==
  EventRow("n1", 1, 0, maxAtt, active) @@ [registrationClosed |-> closed]
\* _count.registrations where isActive.
ActiveRegistrations(d, e) ==
  {m \in Ids : d.registrations[<<e, m>>].exists /\ d.registrations[<<e, m>>].isActive}
BodyMember(rq) == Get(rq.body, "memberId", 0)

\* registerForEvent to its await of prisma.member.findUnique: the event
\* with its count, the deadline and the capacity.
registerEventFind(d, rq) ==
  LET id == P1(rq) IN
  IF BodyMember(rq) = 0 THEN Fail(d, ApiError(400))
  ELSE IF ~(Exists(d.events, id) /\ d.events[id].isActive) THEN Fail(d, ApiError(404))
  ELSE IF d.events[id].registrationClosed THEN Fail(d, ApiError(400))
  ELSE IF d.events[id].maxAttendees # 0
          /\ Cardinality(ActiveRegistrations(d, id)) >= d.events[id].maxAttendees
       THEN Fail(d, ApiError(400))
  ELSE Ok(d, 0)

\* The member lookup and the lookup of the registration row.
registerLookup(d, rq) ==
  IF ~Exists(d.members, BodyMember(rq)) THEN Fail(d, ApiError(404))
  ELSE LET row == d.registrations[<<P1(rq), BodyMember(rq)>>] IN
       IF row.exists /\ row.isActive THEN Fail(d, ApiError(409)) ELSE Ok(d, 0)

\* The update of the row found, or the create, and the 201.
registerEventWrite(d, rq, found) ==
  LET key == <<P1(rq), BodyMember(rq)>> IN
  IF found
  THEN IF ~d.registrations[key].exists THEN Fail(d, PrismaKnownError("P2025"))
       ELSE Ok([d EXCEPT !.registrations[key].isActive = TRUE], 201)
  ELSE IF d.registrations[key].exists THEN Fail(d, PrismaKnownError("P2002"))
       ELSE IF ~Exists(d.events, key[1]) \/ ~Exists(d.members, key[2])
            THEN Fail(d, PrismaKnownError("P2003"))
       ELSE Ok([d EXCEPT !.registrations[key] = RegistrationRow(TRUE)], 201)

cancelRegistrationFind(d, rq) ==
  LET row == d.registrations[<<P1(rq), P3(rq)>>] IN
  IF P3(rq) = 0 THEN Fail(d, ApiError(400))
  ELSE IF ~(row.exists /\ row.isActive) THEN Fail(d, ApiError(404)) ELSE Ok(d, 0)

\* A cancel that deletes the row.
cancelRegistrationWrite_Deletes(d, rq) ==
  LET key == <<P1(rq), P3(rq)>> IN
  IF ~d.registrations[key].exists THEN Fail(d, PrismaKnownError("P2025"))
  ELSE Ok([d EXCEPT !.registrations[key] = NoRow], 200)

\* prisma.eventRegistration.update({data: {isActive: false}}) and the 200.
cancelRegistrationWrite(d, rq) ==
  LET key == <<P1(rq), P3(rq)>> IN
  IF ~d.registrations[key].exists THEN Fail(d, PrismaKnownError("P2025"))
  ELSE Ok([d EXCEPT !.registrations[key].isActive = FALSE], 200)

RegisterEventFind(r) ==
  /\ AtHandler(reqs[r], "registerForEvent")
  /\ reqs' = [reqs EXCEPT ![r] =
                StepTo(@, "registerForEvent", registerEventFind(db, @), "member")]
  /\ UNCHANGED <<db, fkMode>>

RegisterLookup(r) ==
  LET rq == reqs[r] IN
  /\ rq.pc = "member" /\ rq.handler = "registerForEvent"
  /\ reqs' = [reqs EXCEPT ![r] =
                [StepTo(rq, "registerForEvent", registerLookup(db, rq), "write") EXCEPT
                   !.loc = db.registrations[<<P1(rq), BodyMember(rq)>>]]]
  /\ UNCHANGED <<db, fkMode>>

RegisterEventWrite(r) ==
  LET rq == reqs[r]
      res == registerEventWrite(db, rq, rq.loc.exists)
  IN  /\ rq.pc = "write" /\ rq.handler = "registerForEvent"
      /\ db' = res.db
      /\ reqs' = [reqs EXCEPT ![r] = Respond(rq, res.status)]
      /\ UNCHANGED fkMode

CancelFind(r) ==
  /\ AtHandler(reqs[r], "cancelRegistration")
  /\ reqs' = [reqs EXCEPT ![r] =
                StepTo(@, "cancelRegistration", cancelRegistrationFind(db, @), "write")]
  /\ UNCHANGED <<db, fkMode>>

CancelWrite(r) ==
  LET rq == reqs[r]
      res == cancelRegistrationWrite(db, rq)
  IN  /\ rq.pc = "write" /\ rq.handler = "cancelRegistration"
      /\ db' = res.db
      /\ reqs' = [reqs EXCEPT ![r] = Respond(rq, res.status)]
      /\ UNCHANGED fkMode

\* PUT /events/:id, run to its response.
UpdateEvent(r) ==
  /\ AtHandler(reqs[r], "updateEvent")
  /\ Handle(r)

RegRequests ==
  { [router |-> "events", method |-> "POST", path |-> <<IdSeg(e), Lit("register")>>,
     auth |-> AdminToken, body |-> Field("memberId", m # 0, m), query |-> NoBody] :
      e \in {1, 2}, m \in {0, 1, 2} }
    \cup
  { [router |-> "events", method |-> "DELETE",
     path |-> <<IdSeg(1), Lit("register"), IdSeg(m)>>,
     auth |-> AdminToken, body |-> NoBody, query |-> NoBody] : m \in {1, 2} }
    \cup
  { [router |-> "events", method |-> "PUT", path |-> <<IdSeg(1)>>, auth |-> AdminToken,
     body |-> [maxAttendees |-> 1], query |-> NoBody] }

\* Event 1 with or without a capacity and a passed deadline, event 2
\* absent or inactive, member 1 and possibly the others, and any
\* registrations for event 1 within its capacity.
RegSeeds ==
  { d \in { [EmptyDB EXCEPT
               !.users = [u \in UserIds |-> UserRow(EmailOf(u), TRUE, <<"SUPER_ADMIN">>)],
               !.members = [m \in Ids |->
                  IF m \in have THEN MemberRow("n1", NULL, TRUE) ELSE NoRow],
               !.events[1] = EventOn(cap, TRUE, closed),
               !.events[2] = ev2,
               !.registrations = [k \in DOMAIN @ |->
                  IF k[1] = 1 /\ k[2] \in act THEN RegistrationRow(TRUE)
                  ELSE IF k[1] = 1 /\ k[2] \in was THEN RegistrationRow(FALSE)
                  ELSE NoRow]] :
              cap \in {0, 1, 2}, closed \in BOOLEAN, ev2 \in {NoRow, EventOn(0, FALSE, FALSE)},
              have \in {{1, 2}, {1}}, act \in SUBSET {1, 2}, was \in SUBSET {1, 2} } :
      /\ \A k \in DOMAIN d.registrations :
           d.registrations[k].exists => d.members[k[2]].exists
      /\ d.events[1].maxAttendees # 0 =>
           Cardinality(ActiveRegistrations(d, 1)) <= d.events[1].maxAttendees }

InitReg ==
  /\ db \in RegSeeds
  /\ reqs = [r \in ReqIds |-> IdleReq]
  /\ fkMode = "restrict"

RegStep(r) ==
  \/ Authenticate(r) \/ AuthenticateUpdate(r) \/ Authorize(r)
  \/ RegisterEventFind(r) \/ RegisterLookup(r) \/ RegisterEventWrite(r)
  \/ CancelFind(r) \/ CancelWrite(r)
  \/ UpdateEvent(r)

NextReg ==
  \E r \in ReqIds :
    \/ NewRequest(r, RegRequests)
    \/ RegStep(r)

SpecReg == InitReg /\ [][NextReg]_vars

\* A client sends its request once every earlier one is answered.
NextRegSeq ==
  \E r \in ReqIds :
    \/ /\ \A q \in ReqIds : q < r => reqs[q].pc = "done"
       /\ NewRequest(r, RegRequests)
    \/ RegStep(r)

SpecRegSeq == InitReg /\ [][NextRegSeq]_vars

(***************************************************************************)
(* SpecMs: the membership of a ministry, through MinistryController        *)
(* (addMember, removeMember, updateMemberRole behind the router) and       *)
(* through MemberService.addToMinistry / removeFromMinistry, called by     *)
(* MemberController.  Both write the membership rows of the pair           *)
(* (ministry, member).                                                     *)
(***************************************************************************)
addToMinistry(d, memberId, ministryId, role) ==
  LET key == <<ministryId, memberId>> IN
  IF ~Exists(d.members, memberId) THEN Fail(d, NotFoundError)
  ELSE IF ~Exists(d.ministries, ministryId) THEN Fail(d, NotFoundError)
  ELSE IF d.ministryMember[key].exists
       THEN IF d.ministryMember[key].isActive THEN Fail(d, ConflictError)
            ELSE Ok([d EXCEPT !.ministryMember[key] = MembershipRow(role, TRUE)], 0)
  ELSE Ok([d EXCEPT !.ministryMember[key] = MembershipRow(role, TRUE)], 0)

removeFromMinistry(d, memberId, ministryId) ==
  LET key == <<ministryId, memberId>> IN
  IF ~(key \in DOMAIN d.ministryMember /\ d.ministryMember[key].exists)
  THEN Fail(d, NotFoundError)
  ELSE Ok([d EXCEPT !.ministryMember[key].isActive = FALSE], 0)

\* handleSuccess: 200.
MemberController_addToMinistry(d, rq) ==
  Then(addToMinistry(d, P1(rq), Get(rq.body, "ministryId", 0), Get(rq.body, "role", "member")),
       Ok(addToMinistry(d, P1(rq), Get(rq.body, "ministryId", 0),
                        Get(rq.body, "role", "member")).db, 200))

\* handleNoContent: 204.
MemberController_removeFromMinistry(d, rq) ==
  Then(removeFromMinistry(d, P1(rq), P3(rq)),
       Ok(removeFromMinistry(d, P1(rq), P3(rq)).db, 204))

\* The controller methods over the service, called with a request for
\* member m and ministry k.
ServiceCalls ==
  { [handler |-> "addToMinistry", method |-> "POST",
     path |-> <<IdSeg(m), Lit("ministries")>>,
     body |-> [ministryId |-> k] @@ Field("role", role # "", role)] :
      m \in {1, 2}, k \in {1, 2}, role \in {"", "LEADER"} }
    \cup
  { [handler |-> "removeFromMinistry", method |-> "DELETE",
     path |-> <<IdSeg(m), Lit("ministries"), IdSeg(k)>>, body |-> NoBody] :
      m \in {1, 2}, k \in {1, 2} }

MemberServiceCall(r) ==
  /\ reqs[r].pc = "idle"
  /\ \E c \in ServiceCalls :
       LET rq == [IdleReq EXCEPT !.router = "members", !.method = c.method,
                                 !.path = c.path, !.body = c.body, !.snap = db,
                                 !.handler = c.handler]
           res == IF c.handler = "addToMinistry" THEN MemberController_addToMinistry(db, rq)
                  ELSE MemberController_removeFromMinistry(db, rq)
       IN  /\ db' = res.db
           /\ reqs' = [reqs EXCEPT ![r] = Respond(rq, res.status)]
  /\ UNCHANGED fkMode

MsRequests ==
  { [router |-> "ministries", method |-> "POST", path |-> <<IdSeg(k), Lit("members")>>,
     auth |-> AdminToken, body |-> [memberId |-> m] @@ Field("role", role # "", role),
     query |-> NoBody] : k \in {1, 2}, m \in {1, 2}, role \in {"", "LEADER"} }
    \cup
  { [router |-> "ministries", method |-> "DELETE",
     path |-> <<IdSeg(k), Lit("members"), IdSeg(m)>>,
     auth |-> AdminToken, body |-> NoBody, query |-> NoBody] : k \in {1, 2}, m \in {1, 2} }
    \cup
  { [router |-> "ministries", method |-> "PUT",
     path |-> <<IdSeg(1), Lit("members"), IdSeg(m)>>,
     auth |-> AdminToken, body |-> [role |-> "ASSISTANT"], query |-> NoBody] : m \in {1, 2} }

\* Ministry 1, ministry 2 possibly, members 1 and 2, and any membership of
\* the two members in ministry 1.
MsSeeds ==
  { [EmptyDB EXCEPT
       !.users = [u \in UserIds |-> UserRow(EmailOf(u), TRUE, <<"SUPER_ADMIN">>)],
       !.members = [m \in Ids |-> IF m \in {1, 2} THEN MemberRow("n1", NULL, TRUE) ELSE NoRow],
       !.ministries = [k \in Ids |->
          IF k = 1 \/ (k = 2 /\ two) THEN SeedDB.ministries[1] ELSE NoRow],
       !.ministryMember[<<1, 1>>] = a,
       !.ministryMember[<<1, 2>>] = b] :
      two \in BOOLEAN,
      a \in {NoRow, MembershipRow("MEMBER", TRUE), MembershipRow("MEMBER", FALSE)},
      b \in {NoRow, MembershipRow("MEMBER", TRUE)} }

InitMs ==
  /\ db \in MsSeeds
  /\ reqs = [r \in ReqIds |-> IdleReq]
  /\ fkMode = "restrict"

NextMs ==
  \E r \in ReqIds :
    \/ /\ \A q \in ReqIds : q < r => reqs[q].pc = "done"
       /\ NewRequest(r, MsRequests)
    \/ Authenticate(r) \/ AuthenticateUpdate(r) \/ Authorize(r)
    \/ Handle(r)
    \/ /\ \A q \in ReqIds : q < r => reqs[q].pc = "done"
       /\ MemberServiceCall(r)

SpecMs == InitMs /\ [][NextMs]_vars

(***************************************************************************)
(* Properties of the pipeline, checked under SpecRoute.                    *)
(***************************************************************************)
\* The resource tables, without the accounts (authenticate itself writes
\* lastLogin).
Data(d) == [d EXCEPT !.users = EmptyTable(UserIds)]
Passed(rq, mw) == \E i \in 1..Len(rq.trail) : rq.trail[i] = mw
ItemRoute(rq, router, method) ==
  rq.router = router /\ rq.method = method /\ Len(rq.path) = 1
MutatingHandlers ==
  {"createMember", "updateMember", "deleteMember",
   "createMinistry", "updateMinistry", "deleteMinistry",
   "createEvent", "updateEvent", "deleteEvent",
   "createContribution", "updateContribution", "deleteContribution",
   "createAnnouncement", "updateAnnouncement", "deleteAnnouncement"}
\* The first layer the request is handed to is authenticate.
BehindAuthenticate(rq) ==
  LET i == NextLayer(Stack(rq), 1, rq.method, rq.path) IN
  i <= Len(Stack(rq)) /\ Stack(rq)[i].kind = "use" /\ Stack(rq)[i].mw = "authenticate"

\* C1: a create, update or delete handler of the five resources runs only
\* for a request that authenticate accepted (req.user set from a verified
\* bearer token) and that an authorize allow-list let through; and a POST,
\* PUT or DELETE that carries no bearer token leaves every resource table as
\* it was.
C1_MutationsNeedAuth ==
  \A r \in ReqIds :
    LET rq == reqs[r] IN
    /\ rq.handler \in MutatingHandlers =>
         /\ rq.user # NoUser
         /\ rq.auth.scheme = "Bearer" /\ rq.auth.sig = "ok"
         /\ Passed(rq, "authenticate") /\ Passed(rq, "authorize")
    /\ (rq.pc = "done" /\ rq.method \in Mutating /\ rq.auth.scheme # "Bearer") =>
         Data(db) = Data(rq.snap)

\* C1, where the code departs: POST /members without any Authorization
\* header ran createMember and inserted a row.
C1_AnonymousCreate ==
  \E r \in ReqIds :
    LET rq == reqs[r] IN
    /\ rq.pc = "done" /\ rq.router = "members" /\ rq.method = "POST"
    /\ rq.auth = NoAuth /\ rq.handler = "createMember" /\ rq.status = 201
    /\ db.members[2].exists /\ ~rq.snap.members[2].exists

\* C2: authenticate passes a request on only with req.user set to the user
\* a verifying bearer token names; and a request that carries a token of a
\* user who was already inactive when it arrived, on a route behind
\* authenticate, never reaches the handler and is answered 401.
C2_InactiveGets401 ==
  \A r \in ReqIds :
    LET rq == reqs[r] IN
    /\ Passed(rq, "authenticate") =>
         /\ rq.auth.scheme = "Bearer" /\ rq.auth.sig = "ok"
         /\ rq.user.id = rq.auth.uid /\ db.users[rq.user.id].exists
    /\ (rq.sawInactive /\ BehindAuthenticate(rq)) =>
         /\ rq.handler = "" /\ ~Passed(rq, "authenticate")
         /\ rq.pc = "done" => rq.status = 401

\* C2, where the code departs: the token that refreshToken signs carries
\* userId, authenticate reads decoded.id, and the request of the inactive
\* user is answered 500.
C2_InactiveGets500 ==
  \E r \in ReqIds :
    LET rq == reqs[r] IN
    /\ rq.pc = "done" /\ rq.sawInactive /\ BehindAuthenticate(rq)
    /\ rq.auth.sig = "ok" /\ rq.auth.claim = "userId"
    /\ rq.status = 500 /\ rq.handler = ""

\* The allow-list a DELETE /:id has to pass first, and the one it has to
\* pass last, as the claim names them.
FirstAllowList(router) ==
  CASE router = "ministries" -> {"ADMIN", "SUPER_ADMIN", "MINISTRY_LEADER"}
    [] router = "events" -> {"ADMIN", "SUPER_ADMIN", "EVENT_ORGANIZER", "MINISTRY_LEADER"}
    [] router = "contributions" -> {"ADMIN", "SUPER_ADMIN", "FINANCE", "TREASURER"}
    [] router = "announcements" -> {"ADMIN", "SUPER_ADMIN", "CONTENT_CREATOR", "COMMUNICATIONS"}
LastAllowList(router) ==
  IF router = "contributions" THEN {"SUPER_ADMIN", "TREASURER"} ELSE {"SUPER_ADMIN"}
GuardedRouters == {"ministries", "events", "contributions", "announcements"}

Answered(rq, h) == rq.pc = "done" /\ rq.handler = h
HeldBy(d, email) == {j \in Ids : d.members[j].exists /\ d.members[j].email = email}
\* The body carries an email that is a well-formed address.
GivesEmail(rq) == "email" \in DOMAIN rq.body /\ rq.body["email"] \in {"e1", "e2", "e3"}
NameRejected(rq) == "name" \in DOMAIN rq.body /\ rq.body["name"] = ""

\* C4: a create of a member whose email an existing member already has, and
\* an update of a member's email to one a different member holds, are
\* answered 409 (400 when express-validator rejects the name first) and no
\* table changes; an update of a member to the email it already has is not
\* answered 409 and, when the body is valid, is applied.  The same holds of
\* MemberService.create and update behind MemberController.
C4_DuplicateEmail ==
  \A r \in ReqIds :
    LET rq == reqs[r]
        old == rq.snap
        id == P1(rq)
    IN  /\ (Answered(rq, "createMember") /\ GivesEmail(rq)
            /\ HeldBy(old, rq.body["email"]) # {}) =>
              /\ Data(db) = Data(old)
              /\ rq.status = IF "name" \notin DOMAIN rq.body \/ NameRejected(rq)
                             THEN 400 ELSE 409
        /\ (Answered(rq, "MemberController.create") /\ GivesEmail(rq)
            /\ HeldBy(old, rq.body["email"]) # {}) =>
              Data(db) = Data(old) /\ rq.status = 409
        /\ (Answered(rq, "updateMember") /\ GivesEmail(rq) /\ old.members[id].exists) =>
              /\ HeldBy(old, rq.body["email"]) \ {id} # {} =>
                   /\ Data(db) = Data(old)
                   /\ rq.status = IF NameRejected(rq) THEN 400 ELSE 409
              /\ old.members[id].email = rq.body["email"] =>
                   /\ rq.status = IF NameRejected(rq) THEN 400 ELSE 200
                   /\ db.members[id].email = rq.body["email"]
        /\ (Answered(rq, "MemberController.update") /\ GivesEmail(rq)
            /\ old.members[id].exists) =>
              /\ HeldBy(old, rq.body["email"]) \ {id} # {} =>
                   Data(db) = Data(old) /\ rq.status = 409
              /\ old.members[id].email = rq.body["email"] =>
                   rq.status = 200 /\ db.members[id].email = rq.body["email"]

\* PUT /members/2 asked for the email of member 1 and was answered 409;
\* member 2 keeps its own.
C4_UpdateConflict ==
  \E r \in ReqIds :
    LET rq == reqs[r] IN
    /\ Answered(rq, "updateMember") /\ rq.path = <<IdSeg(2)>>
    /\ "email" \in DOMAIN rq.body /\ rq.body["email"] = "e1"
    /\ rq.snap.members[2].exists /\ rq.snap.members[2].email = "e2"
    /\ rq.status = 409 /\ db.members[2].email = "e2"

\* The dependent rows of a member and of an event, as the claim names them.
MemberDependents(d, m) ==
  \/ \E c \in Ids : d.contributions[c].exists /\ d.contributions[c].memberId = m
  \/ \E k \in Ids : d.ministryMember[<<k, m>>].exists
EventDependents(d, e) ==
  \E m \in Ids : d.registrations[<<e, m>>].exists \/ d.attendances[<<e, m>>].exists

\* C6: DELETE of a member or of an event with any dependent row (a
\* contribution or a ministry membership of the member; a registration or an
\* attendance record of the event) is answered 200 with the row kept and
\* isActive = false; the row is removed only when it had no dependent row;
\* DELETE of an unknown id is answered 404 and changes nothing.
C6_SoftDeleteWhenDependents ==
  \A r \in ReqIds :
    LET rq == reqs[r]
        old == rq.snap
        id == P1(rq)
    IN  /\ Answered(rq, "deleteMember") =>
              IF ~old.members[id].exists
              THEN rq.status = 404 /\ Data(db) = Data(old)
              ELSE /\ MemberDependents(old, id) =>
                        /\ rq.status = 200
                        /\ db.members[id].exists /\ ~db.members[id].isActive
                   /\ ~db.members[id].exists => ~MemberDependents(old, id)
        /\ Answered(rq, "deleteEvent") =>
              IF ~old.events[id].exists
              THEN rq.status = 404 /\ Data(db) = Data(old)
              ELSE /\ EventDependents(old, id) =>
                        /\ rq.status = 200
                        /\ db.events[id].exists /\ ~db.events[id].isActive
                   /\ ~db.events[id].exists => ~EventDependents(old, id)

\* C6, where the code departs: member 2 had a ministry membership that had
\* ended (isActive = false) and nothing else; DELETE /members/2 took the
\* hard-delete branch and the row is gone.
C6_DeletedDespiteMembership ==
  \E r \in ReqIds :
    LET rq == reqs[r] IN
    /\ Answered(rq, "deleteMember") /\ rq.path = <<IdSeg(2)>>
    /\ rq.snap.members[2].exists
    /\ rq.snap.ministryMember[<<1, 2>>].exists /\ ~rq.snap.ministryMember[<<1, 2>>].isActive
    /\ rq.status = 200 /\ ~db.members[2].exists

\* The table a PUT handler writes, and the columns it copies from the body.
PutTable(h) ==
  CASE h \in {"updateMember", "MemberController.update"} -> "members"
    [] h = "updateMinistry" -> "ministries"
    [] h = "updateEvent" -> "events"
    [] h = "updateContribution" -> "contributions"
    [] h = "updateAnnouncement" -> "announcements"
PutHandlers ==
  {"updateMember", "MemberController.update", "updateMinistry", "updateEvent",
   "updateContribution", "updateAnnouncement"}
OtherRowsKept(d, old, tbl, id) ==
  /\ \A t \in DOMAIN d : t \notin {tbl, "users"} => d[t] = old[t]
  /\ \A j \in Ids : j # id => d[tbl][j] = old[tbl][j]

\* C8 as stated: after a PUT every column that the body does not carry has
\* the value it had, no other row changes, and a PUT for an unknown id is
\* answered 404 (400 when express-validator rejects the body first) with
\* nothing changed.
C8_OnlyBodyFields ==
  \A r \in ReqIds :
    LET rq == reqs[r]
        old == rq.snap
        id == P1(rq)
    IN  (rq.pc = "done" /\ rq.handler \in PutHandlers) =>
          LET tbl == PutTable(rq.handler) IN
          IF ~old[tbl][id].exists
          THEN /\ Data(db) = Data(old)
               /\ rq.status = IF rq.handler = "updateMember" /\ NameRejected(rq)
                              THEN 400 ELSE 404
          ELSE /\ OtherRowsKept(db, old, tbl, id)
               /\ db[tbl][id].exists
               /\ \A f \in DOMAIN old[tbl][id] :
                    f \notin DOMAIN rq.body => db[tbl][id][f] = old[tbl][id][f]

\* C8, amended: as C8_OnlyBodyFields, except that a contribution PUT whose
\* body sets isAnonymous = true also sets memberId to null.  A PUT that is
\* not answered 200 leaves the row as it was, and one answered 200 has
\* copied the body's title, isActive, isPublished, amount and isAnonymous.
C8_PartialMerge ==
  \A r \in ReqIds :
    LET rq == reqs[r]
        old == rq.snap
        id == P1(rq)
    IN  (rq.pc = "done" /\ rq.handler \in PutHandlers) =>
          LET tbl == PutTable(rq.handler) IN
          IF ~old[tbl][id].exists
          THEN /\ Data(db) = Data(old)
               /\ rq.status = IF rq.handler = "updateMember" /\ NameRejected(rq)
                              THEN 400 ELSE 404
          ELSE /\ OtherRowsKept(db, old, tbl, id)
               /\ db[tbl][id].exists
               /\ \A f \in DOMAIN old[tbl][id] :
                    f \notin DOMAIN rq.body =>
                      \/ db[tbl][id][f] = old[tbl][id][f]
                      \/ /\ tbl = "contributions" /\ f = "memberId"
                         /\ "isAnonymous" \in DOMAIN rq.body /\ rq.body["isAnonymous"]
                         /\ db[tbl][id][f] = 0
               /\ rq.status # 200 => db[tbl][id] = old[tbl][id]
               /\ rq.status = 200 =>
                    \A f \in {"title", "isActive", "isPublished", "amount", "isAnonymous"} :
                      (f \in DOMAIN rq.body /\ f \in DOMAIN old[tbl][id]) =>
                        db[tbl][id][f] = rq.body[f]

\* PUT /events/1 with only a title: answered 200, the title is the new one,
\* and organizer, ministry, capacity and isActive are as before.
C8_TitleOnly ==
  \E r \in ReqIds :
    LET rq == reqs[r] IN
    /\ Answered(rq, "updateEvent") /\ rq.path = <<IdSeg(1)>>
    /\ DOMAIN rq.body = {"title"} /\ rq.status = 200
    /\ db.events[1] = [rq.snap.events[1] EXCEPT !.title = rq.body["title"]]
    /\ db.events[1] # rq.snap.events[1]

(***************************************************************************)
(* Properties under concurrency, checked under SpecRace.                   *)
(***************************************************************************)
\* C5: in every reachable state no two Member rows have the same non-null
\* email and no two User rows have the same email, whatever the
\* interleaving of the lookups and writes of concurrent createMember,
\* updateMember and register requests.
C5_UniqueEmails ==
  /\ \A i, j \in Ids :
       (i # j /\ db.members[i].exists /\ db.members[j].exists
        /\ db.members[i].email # "NULL") => db.members[i].email # db.members[j].email
  /\ \A u, v \in UserIds :
       (u # v /\ db.users[u].exists /\ db.users[v].exists) =>
         db.users[u].email # db.users[v].email

\* Two createMember requests for the same email both found no duplicate;
\* one inserted its row and the other's insert was refused.
C5_RaceLost ==
  \E r1, r2 \in ReqIds :
    /\ r1 # r2
    /\ Answered(reqs[r1], "createMember") /\ Answered(reqs[r2], "createMember")
    /\ reqs[r1].body["email"] = reqs[r2].body["email"]
    /\ reqs[r1].trail = <<"checked">> /\ reqs[r2].trail = <<"checked">>
    /\ reqs[r1].status = 201 /\ reqs[r2].status = 409

(***************************************************************************)
(* Properties of the listings, checked under SpecList.                     *)
(***************************************************************************)
ListedBy == {"getMembers", "getMinistries", "MemberController.getAll"}
Listed(rq) == rq.pc = "done" /\ rq.handler \in ListedBy
Served(rq) == Listed(rq) /\ rq.status = 200
ListTable(rq) == IF rq.handler = "getMinistries" THEN db.ministries ELSE db.members
ActiveRows(tbl) == {i \in DOMAIN tbl : tbl[i].exists /\ tbl[i].isActive}
InData(rq, i) == \E k \in 1..Len(rq.json.data) : rq.json.data[k] = i

\* C7: a served list of members or ministries whose query gives no isActive
\* holds only rows with isActive = true, and its total is the number of
\* active rows.
C7_DefaultListsActive ==
  \A r \in ReqIds :
    LET rq == reqs[r] IN
    (Served(rq) /\ ~Has(rq.query, "isActive")) =>
      /\ \A i \in Ids : InData(rq, i) => i \in ActiveRows(ListTable(rq))
      /\ rq.json.pagination.total = Cardinality(ActiveRows(ListTable(rq)))

\* C7, the case: a default listing of the route is served that holds a
\* soft-deactivated row and leaves out the one active row.
C7_InactiveListed ==
  LET rq == reqs[1] IN
  /\ Served(rq) /\ rq.handler = "getMembers" /\ rq.query = NoBody
  /\ db.members[1].exists /\ db.members[1].isActive
  /\ db.members[2].exists /\ ~db.members[2].isActive
  /\ rq.json.data = <<2>>
  /\ rq.json.pagination.total = 1

\* The page and the limit the client asked for, when they are integers.
AskedInt(rq, k, dflt) ==
  IF ~Has(rq.query, k) THEN dflt
  ELSE IF rq.query[k] \in DOMAIN IntLiterals THEN IntLiterals[rq.query[k]]
  ELSE 0
\* The rows the listing's where clause selects (isActive is compared with
\* whether the query's isActive is the string "true"), and the order asked
\* for.
Selected(rq) ==
  LET want == Has(rq.query, "isActive") /\ rq.query["isActive"] = "true"
  IN  {i \in Ids : ListTable(rq)[i].exists /\ ListTable(rq)[i].isActive = want}
Descending(rq) ==
  IF Has(rq.query, "sortOrder") THEN rq.query["sortOrder"] = "desc"
  ELSE rq.handler = "MemberController.getAll"
ComesBefore(rq, j, i) ==
  LET kj == IF rq.handler = "MemberController.getAll" THEN j
            ELSE NameRank(ListTable(rq)[j].name)
      ki == IF rq.handler = "MemberController.getAll" THEN i
            ELSE NameRank(ListTable(rq)[i].name)
  IN  IF Descending(rq) THEN kj > ki ELSE kj < ki
\* The least number of pages of l rows that hold t rows.
PagesFor(t, l) == CHOOSE k \in 0..t : k * l >= t /\ \A j \in 0..(k - 1) : j * l < t

\* C9: a served list with page p >= 1 and limit l >= 1 over t matching rows
\* reports totalPages = ceil(t / l), hasNext = (p < totalPages) and
\* hasPrev = (p > 1); its data are the rows at offsets (p-1)*l up to
\* min(p*l, t) - 1 of the sorted result, so at most l rows, and none when
\* p > totalPages.
C9_Pagination ==
  \A r \in ReqIds :
    LET rq == reqs[r]
        p == AskedInt(rq, "page", 1)
        l == AskedInt(rq, "limit", 10)
        M == Selected(rq)
        t == Cardinality(M)
        data == rq.json.data
        pg == rq.json.pagination
    IN  (Served(rq) /\ p >= 1 /\ l >= 1) =>
          /\ pg.page = Num(p) /\ pg.limit = Num(l) /\ pg.total = t
          /\ pg.totalPages = Num(PagesFor(t, l))
          /\ pg.hasNext = (p < PagesFor(t, l))
          /\ pg.hasPrev = (p > 1)
          /\ Len(data) = Max(0, Min(p * l, t) - (p - 1) * l)
          /\ \A k \in 1..Len(data) :
               /\ data[k] \in M
               /\ Cardinality({j \in M : ComesBefore(rq, j, data[k])}) = (p - 1) * l + k - 1
          /\ Len(data) <= l
          /\ (p > PagesFor(t, l) => data = <<>>)

\* C9, the case: the second page of one row each over two matching rows is
\* served, and it holds the second row by name.
C9_SecondPage ==
  LET rq == reqs[1] IN
  /\ Served(rq) /\ rq.handler = "getMembers"
  /\ AskedInt(rq, "page", 1) = 2 /\ AskedInt(rq, "limit", 10) = 1
  /\ Cardinality(Selected(rq)) = 2
  /\ ~Descending(rq)
  /\ rq.json.data = <<1>>
  /\ rq.json.pagination.hasPrev /\ ~rq.json.pagination.hasNext

\* What the claim calls a page that is no integer >= 1 and a limit that is
\* no integer between 1 and 100.
BadPage(rq) ==
  Has(rq.query, "page")
    /\ ~(rq.query["page"] \in DOMAIN IntLiterals /\ IntLiterals[rq.query["page"]] >= 1)
BadLimit(rq) ==
  Has(rq.query, "limit")
    /\ ~(rq.query["limit"] \in DOMAIN IntLiterals
         /\ IntLiterals[rq.query["limit"]] >= 1 /\ IntLiterals[rq.query["limit"]] <= 100)

\* C10: a list request whose page is no integer >= 1 or whose limit is no
\* integer between 1 and 100 is answered 400 without a database query, and
\* every served list has 1 <= limit <= 100.
C10_BadPagingRejected ==
  \A r \in ReqIds :
    LET rq == reqs[r] IN
    /\ (Listed(rq) /\ (BadPage(rq) \/ BadLimit(rq))) =>
         (rq.status = 400 /\ ~rq.json.queried)
    /\ Served(rq) =>
         \E n \in 1..100 : rq.json.pagination.limit = Num(n)

\* C10, the case: the route's validation chain has found limit=101 wanting,
\* and the list is served with that limit.
C10_OverLimitServed ==
  LET rq == reqs[1] IN
  /\ Served(rq) /\ rq.handler = "getMembers" /\ rq.errors
  /\ Has(rq.query, "limit") /\ rq.query["limit"] = "101"
  /\ rq.json.pagination.limit = Num(101)
  /\ Len(rq.json.data) = 2

(***************************************************************************)
(* Properties of the error mapping, checked under SpecErr.                 *)
(***************************************************************************)
StatusOfKind(kind) ==
  CASE kind = "validation" -> 400
    [] kind = "authentication" -> 401
    [] kind = "authorization" -> 403
    [] kind = "not-found" -> 404
    [] kind = "conflict" -> 409
    [] OTHER -> 500

\* C11: every error forwarded to errorHandler is answered with success =
\* false and the status of its kind: 400 validation, 401 authentication,
\* 403 authorization, 404 not-found, 409 conflict, 500 otherwise; Prisma's
\* P2002 is answered 409 and P2025 404.
C11_ErrorStatus ==
  \A r \in ReqIds :
    LET rq == reqs[r] IN
    (rq.pc = "done" /\ rq.thrown.kind # "") =>
      /\ ~rq.sent.success
      /\ rq.sent.status = rq.status
      /\ rq.status = StatusOfKind(rq.thrown.kind)
      /\ rq.thrown.err = PrismaKnownError("P2002") => rq.status = 409
      /\ rq.thrown.err = PrismaKnownError("P2025") => rq.status = 404

\* C11, the case: a unique-constraint failure and a missing record have
\* been forwarded and answered 409 and 404.
C11_PrismaMapped ==
  /\ reqs[1].pc = "done" /\ reqs[1].thrown.err = PrismaKnownError("P2002")
  /\ reqs[1].status = 409 /\ ~reqs[1].sent.success
  /\ reqs[2].pc = "done" /\ reqs[2].thrown.err = PrismaKnownError("P2025")
  /\ reqs[2].status = 404

(***************************************************************************)
(* Properties of the member statistics, checked under SpecStats.           *)
(***************************************************************************)
StatsAnswered(rq) == rq.pc = "done" /\ rq.handler \in StatsHandlers /\ rq.status = 200

\* C12: every member-statistics response has total = active + inactive,
\* also when members are created, deactivated or deleted while the
\* statistics request runs.
C12_TotalIsSum ==
  \A r \in ReqIds :
    StatsAnswered(reqs[r]) =>
      reqs[r].stats.total = reqs[r].stats.active + reqs[r].stats.inactive

\* C12, the case: MemberService.getStats has answered with counts that do
\* not add up, a member having been created between its queries.
C12_TornCounts ==
  /\ StatsAnswered(reqs[1]) /\ reqs[1].handler = "MemberController.getStats"
  /\ reqs[1].stats.total # reqs[1].stats.active + reqs[1].stats.inactive
  /\ reqs[2].pc = "done" /\ reqs[2].handler = "createMember" /\ reqs[2].status = 201

(***************************************************************************)
(* Properties of the age histogram, checked under SpecAge.                 *)
(***************************************************************************)
\* The buckets as the claim names them: the ages from lo to hi, 65+ being
\* every age above 65.
Buckets ==
  << [ageGroup |-> "0-17", lo |-> 0, hi |-> 17], [ageGroup |-> "18-25", lo |-> 18, hi |-> 25],
     [ageGroup |-> "26-35", lo |-> 26, hi |-> 35], [ageGroup |-> "36-50", lo |-> 36, hi |-> 50],
     [ageGroup |-> "51-65", lo |-> 51, hi |-> 65], [ageGroup |-> "65+", lo |-> 66, hi |-> 66] >>
InBucket(age, b) == b.lo <= age /\ (age <= b.hi \/ b.ageGroup = "65+")
Aged == {i \in Ids : db.members[i].exists /\ db.members[i].isActive
                     /\ db.members[i].age \in {Num(n) : n \in Ages}}
RECURSIVE SumCounts(_, _)
SumCounts(stats, k) == IF k = 0 THEN 0 ELSE stats[k].count + SumCounts(stats, k - 1)

\* C13: getAgeGroupStats returns the six buckets 0-17, 18-25, 26-35, 36-50,
\* 51-65 and 65+, also those with count 0; every active member with an age
\* is counted in exactly the bucket its age lies in (65 in 51-65, above 65
\* in 65+), so the counts sum to the number of active members with an age,
\* and inactive members and members without an age are counted nowhere.
C13_AgeBuckets ==
  LET rq == reqs[1] IN
  (rq.pc = "done" /\ rq.handler = "getAgeGroupStats") =>
    /\ Len(rq.ageStats) = 6
    /\ \A k \in 1..6 :
         /\ rq.ageStats[k].ageGroup = Buckets[k].ageGroup
         /\ rq.ageStats[k].count =
              Cardinality({i \in Aged : InBucket(db.members[i].age.n, Buckets[k])})
    /\ \A i \in Aged : Cardinality({k \in 1..6 : InBucket(db.members[i].age.n, Buckets[k])}) = 1
    /\ SumCounts(rq.ageStats, 6) = Cardinality(Aged)

\* C13, the case: an active member aged 65, an active member aged 66, and
\* the histogram that counts one in 51-65 and one in 65+.
C13_SixtyFive ==
  LET rq == reqs[1] IN
  /\ rq.pc = "done" /\ rq.handler = "getAgeGroupStats"
  /\ db.members[1] = MemberWithAge(TRUE, Num(65))
  /\ db.members[2] = MemberWithAge(TRUE, Num(66))
  /\ rq.ageStats[5].count = 1 /\ rq.ageStats[6].count = 1
  /\ rq.ageStats[1].count = 0

(***************************************************************************)
(* Properties of the contribution statistics, checked under SpecCStats.    *)
(***************************************************************************)
CStatsServed(rq) == rq.pc = "done" /\ rq.handler = "getContributionStats" /\ rq.status = 200
\* The contributions the date filter of the request selects.
InRange(rq, i) ==
  /\ db.contributions[i].exists
  /\ Has(rq.query, "dateFrom") =>
       DateNum(DateLiterals[rq.query["dateFrom"]]) <= DateNum(db.contributions[i].date)
  /\ Has(rq.query, "dateTo") =>
       DateNum(db.contributions[i].date) <= DateNum(DateLiterals[rq.query["dateTo"]])
\* Two dates lie in the same calendar month, quarter or year.
SamePeriod(a, b, groupBy) ==
  /\ a.year = b.year
  /\ groupBy = "month" => a.month = b.month
  /\ groupBy = "quarter" =>
       \E q \in {{0, 1, 2}, {3, 4, 5}, {6, 7, 8}, {9, 10, 11}} : a.month \in q /\ b.month \in q
RECURSIVE SumOver(_, _)
SumOver(f, S) ==
  IF S = {} THEN 0 ELSE LET x == CHOOSE y \in S : TRUE IN f[x] + SumOver(f, S \ {x})

\* C14: for groupBy month, quarter and year the trend entries partition
\* the matching contributions by calendar period: every contribution is
\* counted in exactly one entry, with the contributions of its period and
\* no others; the entries' counts and amounts add up to the summary's
\* totalCount and totalAmount; each averageAmount is totalAmount / count;
\* with no matching contribution the summary is 0 and trends is empty.
C14_PeriodsPartition ==
  LET rq == reqs[1]
      groupBy == Get(rq.query, "groupBy", "month")
      M == {i \in Ids : InRange(rq, i)}
      trends == rq.cstats.trends
      summary == rq.cstats.summary
      amounts == [i \in Ids |-> IF i \in M THEN db.contributions[i].amount ELSE 0]
  IN  (CStatsServed(rq) /\ groupBy \in {"month", "quarter", "year"}) =>
        /\ summary.totalCount = Cardinality(M)
        /\ summary.totalAmount = SumOver(amounts, M)
        /\ M = {} => (trends = <<>> /\ summary.averageAmount = Quot(0, 1))
        /\ \E slot \in [M -> 1..Len(trends)] :
             /\ \A i, j \in M :
                  slot[i] = slot[j] <=>
                    SamePeriod(db.contributions[i].date, db.contributions[j].date, groupBy)
             /\ \A k \in 1..Len(trends) :
                  LET S == {i \in M : slot[i] = k} IN
                  /\ S # {}
                  /\ trends[k].count = Cardinality(S)
                  /\ trends[k].totalAmount = SumOver(amounts, S)
                  /\ trends[k].averageAmount.q * trends[k].count + trends[k].averageAmount.r
                       = trends[k].totalAmount
                  /\ trends[k].averageAmount.d = trends[k].count
        /\ SumOver([k \in 1..Len(trends) |-> trends[k].count], 1..Len(trends))
             = summary.totalCount
        /\ SumOver([k \in 1..Len(trends) |-> trends[k].totalAmount], 1..Len(trends))
             = summary.totalAmount

\* C14, the case: contributions of March and April 2024 grouped by quarter
\* give two entries, 2024-Q1 and 2024-Q2.
C14_TwoQuarters ==
  LET rq == reqs[1] IN
  /\ CStatsServed(rq) /\ Get(rq.query, "groupBy", "month") = "quarter"
  /\ db.contributions[1] = ContributionOn(5, Date(2024, 2, 15))
  /\ db.contributions[2] = ContributionOn(7, Date(2024, 3, 15))
  /\ Len(rq.cstats.trends) = 2
  /\ rq.cstats.trends[1].period = <<2024, "-Q", 1>>
  /\ rq.cstats.trends[2].period = <<2024, "-Q", 2>>
  /\ rq.cstats.summary.totalAmount = 12

(***************************************************************************)
(* Properties of the member round trip, checked under SpecTrip.            *)
(***************************************************************************)
TripWrite == reqs[1]
TripGet == reqs[2]
\* The member the write is about: the created one, or the one in the path.
TripMember ==
  IF TripWrite.handler = "createMember" THEN TripWrite.data.id ELSE P1(TripWrite)
GotMember ==
  /\ TripWrite.pc = "done" /\ TripGet.pc = "done"
  /\ TripGet.handler = "getMemberById" /\ P1(TripGet) = TripMember

C16_AnsweredOnce ==
  \A r \in ReqIds :
    /\ reqs[r].flow.sends <= 1
    /\ ~reqs[r].flow.forwardedAfterSend
    /\ reqs[r].pc = "done" => reqs[r].flow.sends = 1

\* C16, the case: forgot-password for an account has answered 200, its
\* update was rejected, and the error handler was called for the same
\* request.
C16_ForwardedAfterResponse ==
  \E r \in ReqIds :
    /\ reqs[r].pc = "done" /\ reqs[r].handler = "forgotPassword"
    /\ reqs[r].status = 200
    /\ reqs[r].flow.forwardedAfterSend /\ reqs[r].flow.sends = 2

(***************************************************************************)
(* Properties of the ministry delete, checked under SpecDel.               *)
(***************************************************************************)
\* C17: the step that answers a DELETE of a ministry which at that moment
\* has an active membership or an active event answers 400 and leaves the
\* ministry row as it is; in particular no ministry row is deleted while
\* it has an active membership or an active event.
C17_DeleteGuarded ==
  [][ \A r \in ReqIds :
        LET k == P1(reqs[r]) IN
        (/\ reqs[r].pc \in {"walk", "write"} /\ reqs[r].router = "ministries"
         /\ reqs[r].method = "DELETE" /\ reqs'[r].pc = "done"
         /\ reqs'[r].handler = "deleteMinistry"
         /\ db.ministries[k].exists
         /\ ActiveMembers(db, k) # {} \/ ActiveEvents(db, k) # {})
        => (reqs'[r].status = 400 /\ db'.ministries[k] = db.ministries[k]) ]_vars

\* C17, the case: the delete is answered 200 and the ministry is gone,
\* and the add-member request for the same ministry, which ran between the
\* delete's count and its delete, is answered 201.
C17_DeletedWithNewMember ==
  /\ reqs[1].pc = "done" /\ reqs[1].handler = "deleteMinistry" /\ reqs[1].status = 200
  /\ reqs[2].pc = "done" /\ reqs[2].handler = "addMember" /\ reqs[2].status = 201
  /\ P1(reqs[2]) = P1(reqs[1])
  /\ ~db.ministries[P1(reqs[1])].exists

(***************************************************************************)
(* Properties of the public announcement routes, checked under SpecAnn.    *)
(***************************************************************************)
\* An announcement that may be shown to the public at the time now.
Publishable(row) ==
  /\ row.exists /\ row.isPublished /\ row.isActive
  /\ (row.publishDate = Null \/ DateNum(row.publishDate) <= DateNum(Now))
  /\ (row.expiryDate = Null \/ DateNum(row.expiryDate) >= DateNum(Now))

\* C18: every announcement in a response of /public, /public/:id,
\* /recent, /search or /priority/:priority is published, active, past its
\* publishDate (if it has one) and not past its expiryDate (if it has
\* one), whatever the query and the id.
C18_OnlyPublishable ==
  \A r \in ReqIds :
    (reqs[r].pc = "done" /\ reqs[r].handler \in PublicHandlers /\ reqs[r].status = 200) =>
      \A n \in 1..Len(reqs[r].json.data) : Publishable(db.announcements[reqs[r].json.data[n]])

\* C18, the case: GET /announcements/public/:id without a token is
\* answered 200 with a draft.
C18_DraftById ==
  \E r \in ReqIds :
    /\ reqs[r].pc = "done" /\ reqs[r].handler = "getAnnouncementById"
    /\ reqs[r].auth = NoAuth /\ reqs[r].status = 200
    /\ Len(reqs[r].json.data) = 1
    /\ ~db.announcements[reqs[r].json.data[1]].isPublished

(***************************************************************************)
(* Properties of GET /auth/me, checked under SpecMe.                       *)
(***************************************************************************)
\* The request carries no bearer token, or one that does not verify.
NoValidToken(rq) == rq.auth.scheme # "Bearer" \/ ~jwtVerify(rq.auth).ok

\* C19: GET /auth/me without a token or with an invalid one is answered
\* by getCurrentUser with 200 and data null ('No authenticated user'),
\* never with 401.
C19_MeWithoutToken ==
  \A r \in ReqIds :
    (reqs[r].pc = "done" /\ reqs[r].router = "auth" /\ reqs[r].path = <<Lit("me")>>
       /\ NoValidToken(reqs[r])) =>
      /\ reqs[r].status = 200
      /\ reqs[r].handler = "getCurrentUser"
      /\ reqs[r].data = NoData /\ reqs[r].user = NoUser

\* C19, the case: GET /auth/me without an Authorization header is ended
\* by authenticate with 401, before optionalAuth runs.
C19_MeRejected ==
  \E r \in ReqIds :
    /\ reqs[r].pc = "done" /\ reqs[r].router = "auth" /\ reqs[r].path = <<Lit("me")>>
    /\ reqs[r].auth = NoAuth
    /\ reqs[r].status = 401 /\ reqs[r].handler = "" /\ reqs[r].trail = <<>>

(***************************************************************************)
(* Properties of the export route, checked under SpecExport.               *)
(***************************************************************************)
\* The request is GET /contributions/export of an authenticated user.
ExportAsked(rq) ==
  /\ rq.pc = "done" /\ rq.router = "contributions" /\ rq.method = "GET"
  /\ rq.path = <<Lit("export")>> /\ rq.user # NoUser

\* C20: GET /contributions/export of an authenticated ADMIN, SUPER_ADMIN,
\* FINANCE or TREASURER is handled by exportContributions and answered as
\* that handler answers (200 with the export for a valid format); for any
\* other role it is refused with 403.
C20_ExportByRole ==
  \A r \in ReqIds :
    ExportAsked(reqs[r]) =>
      IF reqs[r].user.role \in ExportRoles
      THEN /\ reqs[r].handler = "exportContributions"
           /\ reqs[r].status = exportContributions(reqs[r].snap, reqs[r]).status
      ELSE reqs[r].status = 403

\* C20, the case: the export request of a TREASURER, with the default
\* format, is taken by GET /:id and answered 404 by getContributionById,
\* where exportContributions would have answered 200 with rows.
C20_ExportTakenById ==
  \E r \in ReqIds :
    /\ ExportAsked(reqs[r]) /\ reqs[r].user.role = "TREASURER"
    /\ reqs[r].query = NoBody
    /\ reqs[r].handler = "getContributionById" /\ reqs[r].status = 404
    /\ exportContributions(db, reqs[r]).status = 200
    /\ Len(exportContributions(db, reqs[r]).data) = 2

(***************************************************************************)
(* Properties of forgot-password and reset-password, checked under         *)
(* SpecFlow and SpecReset.                                                 *)
(***************************************************************************)
\* The database d with no account under the address, and with one.
WithoutAccount(d, email) ==
  [d EXCEPT !.users = [u \in DOMAIN @ |->
     IF @[u].exists /\ @[u].email = toLowerCase(email) THEN NoRow ELSE @[u]]]
WithAccount(d, email) ==
  IF \E u \in UserIds : d.users[u].exists /\ d.users[u].email = toLowerCase(email) THEN d
  ELSE [d EXCEPT !.users[1] =
          UserRow(toLowerCase(email), TRUE, <<>>) @@ ResetColumns("h0", NULL, NULL)]
\* What the client of forgot-password receives, computed on a database.
ForgotAnswer(d, rq) ==
  IF forgotPasswordValidationFails(rq) THEN errorBody(ApiError(400))
  ELSE forgotPasswordBody(d, rq)

\* C21: the status and the body a forgot-password request is answered
\* with are the ones the same request gets on the database without an
\* account under that address, and on the database with one.
C21_NoEnumeration ==
  \A r \in ReqIds :
    (reqs[r].handler = "forgotPassword" /\ reqs[r].flow.sends > 0
       /\ Has(reqs[r].body, "email")) =>
      /\ reqs[r].sent = ForgotAnswer(WithoutAccount(reqs[r].snap, reqs[r].body["email"]), reqs[r])
      /\ reqs[r].sent = ForgotAnswer(WithAccount(reqs[r].snap, reqs[r].body["email"]), reqs[r])
      /\ reqs[r].status = reqs[r].sent.status

\* C21, the case: one request for the address of an account and one for an
\* address without account are both answered, with the same status and
\* body.
C21_BothAnswered ==
  /\ reqs[1].pc = "done" /\ reqs[2].pc = "done"
  /\ reqs[1].handler = "forgotPassword" /\ reqs[2].handler = "forgotPassword"
  /\ reqs[1].body = [email |-> "e1"] /\ reqs[2].body = [email |-> "e2"]
  /\ db.users[1].exists /\ ~db.users[2].exists
  /\ reqs[1].sent = reqs[2].sent /\ reqs[1].status = 200 /\ reqs[2].status = 200

\* C22: a step that answers reset-password with 200, or that changes the
\* password of an account, happens only while the request's token is the
\* token stored for that account and its expiry has not passed; a used,
\* expired or replaced token is answered 400 with the password unchanged.
C22_TokenOnce ==
  [][ /\ \A r \in ReqIds :
           (reqs[r].pc # "done" /\ reqs'[r].pc = "done" /\ reqs'[r].handler = "resetPassword"
              /\ ~resetPasswordValidationFails(reqs[r])
              /\ resetPasswordFind(db, reqs[r].body["token"]) = 0)
           => (reqs'[r].status = 400 /\ db'.users = db.users)
      /\ \A u \in UserIds :
           (db.users[u].exists /\ db'.users[u].password # db.users[u].password)
           => \E r \in ReqIds :
                /\ reqs'[r].pc = "done" /\ reqs'[r].handler = "resetPassword"
                /\ resetPasswordFind(db, reqs[r].body["token"]) = u ]_vars

\* C22, the case: two reset-password requests with the token "t0" and
\* different passwords are both answered 200, and the password is the one
\* of the request that wrote last.
C22_TokenUsedTwice ==
  /\ reqs[1].pc = "done" /\ reqs[2].pc = "done"
  /\ reqs[1].handler = "resetPassword" /\ reqs[2].handler = "resetPassword"
  /\ reqs[1].body = [token |-> "t0", newPassword |-> "secret1"]
  /\ reqs[2].body = [token |-> "t0", newPassword |-> "secret2"]
  /\ reqs[1].status = 200 /\ reqs[2].status = 200
  /\ db.users[1].password \in {"h1", "h2"}

(***************************************************************************)
(* Properties of the refreshed token, checked under SpecRefresh.           *)
(***************************************************************************)
\* The request after the refresh has passed or failed authenticate.
PastAuthenticate(rq) == rq.pc = "done" \/ rq.trail # <<>>
\* The account is there and active, so that authenticate accepts a token
\* that names it.
StillActive(id) == Exists(db.users, id) /\ db.users[id].isActive

\* C23: a request that carries the token refresh-token returned, or the
\* token login signs for the same account, passes authenticate as that
\* account while the account is active.
C23_RefreshedAccepted ==
  (/\ reqs[1].handler = "refreshToken" /\ reqs[1].status = 200
   /\ reqs[2].pc = "done"
   /\ reqs[2].auth \in {reqs[1].token, generateToken(reqs[1].user.id)}
   /\ StillActive(reqs[1].user.id) /\ ~reqs[2].sawInactive)
  => /\ reqs[2].trail # <<>> /\ reqs[2].trail[1] = "authenticate"
     /\ reqs[2].user.id = reqs[1].user.id

\* C23, the case: the request with the refreshed token is answered 500 by
\* authenticate, whose decoded.id is undefined.
C23_RefreshedRejected ==
  /\ reqs[1].handler = "refreshToken" /\ reqs[1].status = 200
  /\ reqs[2].pc = "done" /\ reqs[2].auth = reqs[1].token
  /\ reqs[2].auth.claim = "userId"
  /\ StillActive(reqs[1].user.id)
  /\ reqs[2].status = 500 /\ reqs[2].trail = <<>>

(***************************************************************************)
(* Properties of the event registrations, checked under SpecReg and        *)
(* SpecRegSeq.                                                             *)
(***************************************************************************)
\* C24: an event with maxAttendees set never has more active
\* registrations than maxAttendees.
C24_Capacity ==
  \A e \in Ids :
    (db.events[e].exists /\ db.events[e].maxAttendees # 0) =>
      Cardinality(ActiveRegistrations(db, e)) <= db.events[e].maxAttendees

\* C24, the case: two registerForEvent requests for the last place of
\* event 1 are both answered 201.
C24_Overbooked ==
  /\ reqs[1].pc = "done" /\ reqs[2].pc = "done"
  /\ reqs[1].handler = "registerForEvent" /\ reqs[2].handler = "registerForEvent"
  /\ reqs[1].status = 201 /\ reqs[2].status = 201
  /\ db.events[1].maxAttendees = 1
  /\ Cardinality(ActiveRegistrations(db, 1)) = 2

\* A request of SpecRegSeq that is answered and has no later request
\* after it: snap is the database it met, db the one it left.
Settled(r) ==
  /\ reqs[r].pc = "done"
  /\ \A q \in ReqIds : q > r => reqs[q].pc = "idle"
IsRegister(rq) ==
  rq.method = "POST" /\ Len(rq.path) = 2 /\ BodyMember(rq) # 0
IsCancel(rq) == rq.method = "DELETE" /\ Len(rq.path) = 3
RegKey(rq) == IF IsCancel(rq) THEN <<P1(rq), P3(rq)>> ELSE <<P1(rq), BodyMember(rq)>>
EventOpen(d, e) == d.events[e].exists /\ d.events[e].isActive
EventHasPlace(d, e) ==
  /\ ~d.events[e].registrationClosed
  /\ d.events[e].maxAttendees # 0 =>
       Cardinality(ActiveRegistrations(d, e)) < d.events[e].maxAttendees
RowActive(d, k) == d.registrations[k].exists /\ d.registrations[k].isActive
RegAnswered(rq, status, regs) == rq.status = status /\ db.registrations = regs

\* Cancelling an active registration sets isActive = false and keeps the
\* row; without an active registration the answer is 404.
CancelClause(rq) ==
  IsCancel(rq) =>
    IF RowActive(rq.snap, RegKey(rq))
    THEN RegAnswered(rq, 200, [rq.snap.registrations EXCEPT ![RegKey(rq)].isActive = FALSE])
    ELSE RegAnswered(rq, 404, rq.snap.registrations)

\* Registering for an inactive or unknown event is answered 404.
UnknownEventClause(rq) ==
  (IsRegister(rq) /\ ~EventOpen(rq.snap, P1(rq))) =>
    RegAnswered(rq, 404, rq.snap.registrations)

\* Registering again reactivates the row of the pair; a first
\* registration creates it.
RegisterClause(rq) ==
  LET k == RegKey(rq) IN
  (/\ IsRegister(rq) /\ EventOpen(rq.snap, k[1]) /\ EventHasPlace(rq.snap, k[1])
   /\ rq.snap.members[k[2]].exists /\ ~RowActive(rq.snap, k)) =>
    /\ rq.status = 201
    /\ RowActive(db, k)
    /\ \A j \in DOMAIN db.registrations : j # k =>
         db.registrations[j] = rq.snap.registrations[j]
    /\ rq.snap.registrations[k].exists =>
         db.registrations = [rq.snap.registrations EXCEPT ![k].isActive = TRUE]

\* C25 as stated: a registration for an active event while the row of the
\* pair is active is answered 409 and changes nothing, whatever the
\* capacity and the deadline of the event; the other clauses as below.
C25_Original ==
  \A r \in ReqIds :
    Settled(r) =>
      LET rq == reqs[r] IN
      /\ (IsRegister(rq) /\ EventOpen(rq.snap, P1(rq)) /\ RowActive(rq.snap, RegKey(rq))) =>
           RegAnswered(rq, 409, rq.snap.registrations)
      /\ CancelClause(rq) /\ UnknownEventClause(rq) /\ RegisterClause(rq)

\* C25, amended: for an active event that is full or past its deadline a
\* registration is answered 400 and changes nothing; otherwise registering
\* while the row of the pair is active is answered 409 and changes
\* nothing, cancelling sets isActive = false and keeps the row (404 without
\* an active registration), registering again reactivates the same row,
\* and an inactive or unknown event is answered 404.
C25_OneRegistration ==
  \A r \in ReqIds :
    Settled(r) =>
      LET rq == reqs[r] IN
      /\ (IsRegister(rq) /\ EventOpen(rq.snap, P1(rq)) /\ ~EventHasPlace(rq.snap, P1(rq))) =>
           RegAnswered(rq, 400, rq.snap.registrations)
      /\ (/\ IsRegister(rq) /\ EventOpen(rq.snap, P1(rq)) /\ EventHasPlace(rq.snap, P1(rq))
          /\ rq.snap.members[BodyMember(rq)].exists /\ RowActive(rq.snap, RegKey(rq))) =>
           RegAnswered(rq, 409, rq.snap.registrations)
      /\ CancelClause(rq) /\ UnknownEventClause(rq) /\ RegisterClause(rq)

\* C25, the case: a member registers, cancels and registers again, and the
\* row of the pair is active once more.
C25_Reactivated ==
  /\ Settled(2)
  /\ IsCancel(reqs[1]) /\ reqs[1].status = 200
  /\ IsRegister(reqs[2]) /\ reqs[2].status = 201 /\ RegKey(reqs[2]) = RegKey(reqs[1])
  /\ RowActive(db, RegKey(reqs[2]))

\* C25, the case of the amendment: a registered member registers again for
\* a full event and is answered 400.
C25_FullBeforeDuplicate ==
  \E r \in ReqIds :
    /\ Settled(r) /\ IsRegister(reqs[r])
    /\ RowActive(reqs[r].snap, RegKey(reqs[r]))
    /\ reqs[r].status = 400

(***************************************************************************)
(* Properties of the ministry memberships, checked under SpecMs.           *)
(***************************************************************************)
IsAdd(rq) ==
  \/ rq.handler = "addMember" /\ ~memberActionValidationFails(rq)
  \/ rq.handler = "addToMinistry"
IsRemove(rq) == rq.handler \in {"removeMember", "removeFromMinistry"}
MsKey(rq) ==
  IF rq.handler = "addMember" THEN <<P1(rq), rq.body["memberId"]>>
  ELSE IF rq.handler = "addToMinistry" THEN <<Get(rq.body, "ministryId", 0), P1(rq)>>
  ELSE IF rq.handler = "removeFromMinistry" THEN <<P3(rq), P1(rq)>>
  ELSE <<P1(rq), P3(rq)>>
MsActive(d, k) ==
  k \in DOMAIN d.ministryMember /\ d.ministryMember[k].exists /\ d.ministryMember[k].isActive
MsInactive(d, k) ==
  k \in DOMAIN d.ministryMember /\ d.ministryMember[k].exists /\ ~d.ministryMember[k].isActive
Succeeded(rq) == rq.status \in {200, 201, 204}

\* C26: in the step that answers a request, adding a member who is active
\* in the ministry is answered 409 and changes nothing; removing an active
\* membership sets isActive = false and keeps the row, and removing
\* without an active membership is answered 404 and changes nothing;
\* adding to an inactive membership makes the same row active; a role
\* changes only on an active membership or on reactivation; no membership
\* row disappears.
C26_Lifecycle ==
  [][\A r \in ReqIds :
       (reqs[r].pc # "done" /\ reqs'[r].pc = "done") =>
         LET rq == reqs'[r]
             k == MsKey(rq)
             mm == db.ministryMember
         IN  /\ (IsAdd(rq) /\ MsActive(db, k)) =>
                  rq.status = 409 /\ db'.ministryMember = mm
             /\ (IsAdd(rq) /\ MsInactive(db, k)) =>
                  /\ Succeeded(rq) /\ MsActive(db', k)
                  /\ db'.ministryMember[k].role \in {Get(rq.body, "role", "MEMBER"),
                                                      Get(rq.body, "role", "member")}
             /\ (IsRemove(rq) /\ MsActive(db, k)) =>
                  /\ Succeeded(rq)
                  /\ db'.ministryMember = [mm EXCEPT ![k].isActive = FALSE]
             /\ (IsRemove(rq) /\ ~MsActive(db, k)) =>
                  rq.status = 404 /\ db'.ministryMember = mm
             /\ (rq.handler = "updateMemberRole" /\ ~MsActive(db, k)) =>
                  db'.ministryMember = mm
             /\ \A j \in DOMAIN mm : mm[j].exists => db'.ministryMember[j].exists
    ]_vars

\* C26, the case: removeFromMinistry for a membership that is already
\* inactive is answered 204.
C26_RemovedTwice ==
  \E r \in ReqIds :
    /\ reqs[r].pc = "done" /\ reqs[r].handler = "removeFromMinistry"
    /\ MsInactive(reqs[r].snap, MsKey(reqs[r]))
    /\ reqs[r].status = 204

====
